---- MODULE Spec2Model ----
(***************************************************************************)
(* Model of the lightquant backtesting core: the Order state machine       *)
(* (domain/models/order.py), the risk-rule engine (domain/risk_management) *)
(* and the backtest replay loop (domain/strategies/backtest_engine.py with *)
(* strategy_context.py).                                                   *)
(*                                                                         *)
(* Representation.  Quantities that are floats in the source are exact     *)
(* integers here (amounts in base-asset units, prices and balances in      *)
(* quote-asset units); an average price is an exact rational <<num, den>>. *)
(* A Python None is 0 for an optional number that is otherwise positive,   *)
(* and <<0, 0>> for the average price.  Object identity is an index into   *)
(* the sequence "orders" (the Order objects created so far).               *)
(*                                                                         *)
(* Accessor names.  The engine reads an order through order.amount,        *)
(* order.side, order.symbol, order.status and calls                        *)
(* order.fill(price=, filled=, fee=, fee_currency=); the model resolves    *)
(* these to the fields Order keeps (params.amount, params.side,            *)
(* params.symbol, status) and to Order.fill(amount, price, trade_id).  In  *)
(* the same way the engine's Balance(currency, free, used, total) is the   *)
(* account module's Balance(asset, free, locked) with total = free +       *)
(* locked, and StrategyContext.create_order's call of the order service    *)
(* is OrderService.create_order building an Order from those parameters,   *)
(* and load_candles' get_historical_candles is the market data service's   *)
(* get_candles.  The trade statistics of _calculate_performance_metrics    *)
(* (order.realized_pnl) are not modelled; of the metrics the model keeps   *)
(* the initial equity, the final equity and the maximum drawdown.          *)
(*                                                                         *)
(* Several specifications share the variables: SpecOrder drives one Order  *)
(* through its methods with exact amounts, SpecFloat does the same with    *)
(* the rounding of float arithmetic in Order.fill (a binary format of      *)
(* reduced precision), SpecRisk drives a RiskManager, SpecRules asks one   *)
(* position or drawdown rule and Account.get_equity, SpecTrades drives a   *)
(* MaxTradesPerDayRule through days, Spec is one BacktestEngine with one   *)
(* strategy and one run_backtest call, SpecBars follows the delivery of    *)
(* the bars of two symbols and two timeframes, and SpecRuns calls          *)
(* run_backtest repeatedly with set_initial_capital in between.  In Spec   *)
(* and SpecRuns the caller enters the created strategy in the engine's     *)
(* strategy_instances and strategy_contexts maps (RegisterStrategy), as    *)
(* create_strategy itself does not; without that step run_backtest         *)
(* returns at its first test.  SpecMetrics computes the metrics of an      *)
(* equity curve, SpecTicker follows the ticker the engine hands to the     *)
(* risk manager, SpecErrors is a run whose strategy may create an order    *)
(* that the open-order loop cannot process, SpecCancel cancels one order   *)
(* through the order service and through the strategy context, SpecParams  *)
(* is SpecTrades with an update_params call, and SpecNames gives a manager *)
(* rules that share a name.                                                *)
(***************************************************************************)
EXTENDS Integers, Sequences, FiniteSets, TLC

\* ------------------------------------------------------------------ bounds
MaxAmount == 2      \* largest requested order amount
MaxCalls == 4       \* Order API calls made on the order under test (SpecOrder)
MaxChecks == 2      \* RiskManager.check_order calls made (SpecRisk)
MaxTradesLimit == 1 \* largest max_trades a trade rule is given

\* --------------------------------------------------------------- variables
VARIABLES
    orders,     \* the Order objects created so far, id = index
    call,       \* the last Order API call: [op, id, ok, amount, before]
    ncalls,     \* number of Order API calls made (SpecOrder)
    rules,      \* RiskManager.rules: the rules in insertion order
    riskCtx,    \* RiskManager.context: a map from key to value
    wallDate,   \* date.today(): the wall-clock day
    account,    \* Account.balances: asset -> [free, locked]
    chk,        \* the last RiskManager.check_order call
    eng,        \* the BacktestEngine's fields
    ctxOrders,  \* StrategyContext.orders: the ids in insertion order
    run,        \* where the run_backtest call stands
    log         \* what happened to the orders, in order: checks, fills, ...

orderVars == <<orders, call, ncalls>>
riskVars == <<rules, riskCtx, wallDate, account, chk>>
engVars == <<eng, ctxOrders, run, log>>
vars == <<orders, call, ncalls, rules, riskCtx, wallDate, account, chk,
          eng, ctxOrders, run, log>>

\* ------------------------------------------------------------ small helpers
RECURSIVE Gcd(_, _)
Gcd(a, b) == IF b = 0 THEN a ELSE Gcd(b, a % b)

\* A rational <<n, d>> with d > 0 in lowest terms.
Norm(q) ==
    LET g == Gcd(IF q[1] < 0 THEN 0 - q[1] ELSE q[1], q[2])
    IN IF g = 0 THEN q ELSE <<q[1] \div g, q[2] \div g>>

NoPrice == <<0, 0>>

\* ------------------------------------------------------------------- Order
Sides == {"buy", "sell"}
Prices == {100, 110}
Symbols == {"BTC/USDT", "ETH/USDT"}
QuoteAsset == "USDT"
\* symbol.split("/")
BaseOf(symbol) == IF symbol = "BTC/USDT" THEN "BTC" ELSE "ETH"
QuoteOf(symbol) == "USDT"
SymbolOf(asset, quote) == IF asset = "BTC" THEN "BTC/USDT" ELSE "ETH/USDT"

ClosedStatuses == {"FILLED", "CANCELED", "REJECTED", "EXPIRED"}

\* Order.__init__: PENDING, nothing filled, everything remaining.
NewOrder(symbol, amount, side, price) ==
    [status |-> "PENDING", symbol |-> symbol, amount |-> amount, side |-> side,
     price |-> price,
     filled_amount |-> 0, remaining_amount |-> amount,
     average_price |-> NoPrice, exchange_order_id |-> 0,
     closed_at |-> FALSE, trades |-> <<>>]

\* Order.is_closed
IsClosed(o) == o.status \in ClosedStatuses

Raise(o) == [ok |-> FALSE, o |-> o]
Return(o) == [ok |-> TRUE, o |-> o]

\* A variant of Order.submit that accepts any order that is not closed.
OrderSubmitNotClosed(o) ==
    IF IsClosed(o) THEN Raise(o)
    ELSE Return([o EXCEPT !.exchange_order_id = 1, !.status = "OPEN"])

\* Order.submit
OrderSubmit(o) ==
    IF o.status # "PENDING" THEN Raise(o)
    ELSE Return([o EXCEPT !.exchange_order_id = 1, !.status = "OPEN"])

\* A variant of the running mean that gives the old average and the new
\* price the same weight.
UnweightedAverage(avg, filled, amount, price) ==
    IF avg = NoPrice THEN <<price, 1>>
    ELSE Norm(<<avg[1] + price * avg[2], 2 * avg[2]>>)

\* The running weighted mean of Order.fill; "filled" is filled_amount after
\* the fill has been added.
NewAverage(avg, filled, amount, price) ==
    IF avg = NoPrice THEN <<price, 1>>
    ELSE Norm(<<avg[1] * (filled - amount) + price * amount * avg[2],
                avg[2] * filled>>)

\* A variant of Order.fill that clamps an over-sized fill to what remains.
OrderFillClamped(o, amount, price) ==
    IF IsClosed(o) \/ amount <= 0 THEN Raise(o)
    ELSE LET filled == o.filled_amount + amount
         IN Return([o EXCEPT !.filled_amount = filled,
                             !.remaining_amount = IF amount > @ THEN 0 ELSE @ - amount,
                             !.average_price = NewAverage(@, filled, amount, price),
                             !.trades = Append(@, <<amount, price>>),
                             !.status = IF filled >= o.amount THEN "FILLED"
                                        ELSE "PARTIALLY_FILLED",
                             !.closed_at = (filled >= o.amount)])

\* Order.fill
OrderFill(o, amount, price) ==
    IF IsClosed(o) THEN Raise(o)
    ELSE IF amount <= 0 THEN Raise(o)
    ELSE IF amount > o.remaining_amount THEN Raise(o)
    ELSE LET filled == o.filled_amount + amount
         IN Return([o EXCEPT !.filled_amount = filled,
                             !.remaining_amount = @ - amount,
                             !.average_price = NewAverage(@, filled, amount, price),
                             !.trades = Append(@, <<amount, price>>),
                             !.status = IF filled >= o.amount THEN "FILLED"
                                        ELSE "PARTIALLY_FILLED",
                             !.closed_at = (filled >= o.amount)])

\* A variant of Order.cancel without the closed-order check.
OrderCancelAlways(o) ==
    Return([o EXCEPT !.status = "CANCELED", !.closed_at = TRUE])

\* A variant of Order.cancel that accepts only PENDING and OPEN orders.
OrderCancelUnfilled(o) ==
    IF o.status # "PENDING" /\ o.status # "OPEN" THEN Raise(o)
    ELSE Return([o EXCEPT !.status = "CANCELED", !.closed_at = TRUE])

\* Order.cancel
OrderCancel(o) ==
    IF IsClosed(o) THEN Raise(o)
    ELSE Return([o EXCEPT !.status = "CANCELED", !.closed_at = TRUE])

\* A variant of Order.reject that accepts any order that is not closed.
OrderRejectNotClosed(o) ==
    IF IsClosed(o) THEN Raise(o)
    ELSE Return([o EXCEPT !.status = "REJECTED", !.closed_at = TRUE])

\* Order.reject
OrderReject(o) ==
    IF o.status # "PENDING" /\ o.status # "OPEN" THEN Raise(o)
    ELSE Return([o EXCEPT !.status = "REJECTED", !.closed_at = TRUE])

\* Order.expire
OrderExpire(o) ==
    IF IsClosed(o) THEN Raise(o)
    ELSE Return([o EXCEPT !.status = "EXPIRED", !.closed_at = TRUE])


\* ----------------------------------------------------------------- Account
\* Balance.total
Total(b) == b.free + b.locked

RECURSIVE SumValue(_, _, _, _)
SumValue(assets, acct, quote, prices) ==
    IF assets = {} THEN 0
    ELSE LET a == CHOOSE x \in assets : TRUE
             symbol == SymbolOf(a, quote)
         IN (IF symbol \in DOMAIN prices THEN Total(acct[a]) * prices[symbol] ELSE 0)
            + SumValue(assets \ {a}, acct, quote, prices)

\* Account.get_equity(quote_asset, prices)
GetEquity(acct, quote, prices) ==
    IF DOMAIN prices = {} THEN 0
    ELSE (IF quote \in DOMAIN acct THEN Total(acct[quote]) ELSE 0)
         + SumValue(DOMAIN acct \ {quote}, acct, quote, prices)

\* -------------------------------------------------------------- Risk rules
PositionName == "Position Size Rule"
DrawdownName == "Max Drawdown Rule"
TradesName == "Max Trades Per Day Rule"

\* Time is counted in hours; datetime.date() is the day it falls in.
DayLen == 24
DateOf(time) == time \div DayLen

\* PositionSizeRule.__init__ (a limit of 0 is a limit that is not configured)
PositionSizeRule(amount, value, percentage) ==
    [name |-> PositionName, kind |-> "position", enabled |-> TRUE,
     max_position_amount |-> amount, max_position_value |-> value,
     max_position_percentage |-> percentage, max_drawdown_percentage |-> 0,
     max_trades |-> 0, trades_today |-> <<>>, current_date |-> 0]

\* MaxDrawdownRule.__init__
MaxDrawdownRule(percentage) ==
    [name |-> DrawdownName, kind |-> "drawdown", enabled |-> TRUE,
     max_position_amount |-> 0, max_position_value |-> 0,
     max_position_percentage |-> 0, max_drawdown_percentage |-> percentage,
     max_trades |-> 0, trades_today |-> <<>>, current_date |-> 0]

\* MaxTradesPerDayRule.__init__: the day starts as date.today()
MaxTradesPerDayRule(max_trades, today) ==
    [name |-> TradesName, kind |-> "trades", enabled |-> TRUE,
     max_position_amount |-> 0, max_position_value |-> 0,
     max_position_percentage |-> 0, max_drawdown_percentage |-> 0,
     max_trades |-> max_trades, trades_today |-> <<>>, current_date |-> today]

\* context["ticker"][symbol]["last"], as a map symbol -> last price
TickerPrices(ctx) == IF "ticker" \in DOMAIN ctx THEN ctx["ticker"] ELSE <<>>

\* A variant of PositionSizeRule.check_order that denies an order whose price
\* cannot be determined.
PositionSizeCheckNoFallback(r, o, acct, ctx) ==
    LET ticker == TickerPrices(ctx)
        price == IF o.price # 0 THEN o.price
                 ELSE IF o.symbol \in DOMAIN ticker THEN ticker[o.symbol]
                 ELSE 0
        order_value == o.amount * price
    IN IF r.max_position_amount # 0 /\ o.amount > r.max_position_amount THEN FALSE
       ELSE IF price = 0 THEN FALSE
       ELSE IF r.max_position_value # 0 /\ order_value > r.max_position_value
            THEN FALSE
       ELSE IF r.max_position_percentage # 0
            THEN LET equity == GetEquity(acct, QuoteAsset, ticker)
                 IN IF equity <= 0 THEN FALSE
                    ELSE ~(order_value * 100 > r.max_position_percentage * equity)
       ELSE TRUE

\* PositionSizeRule.check_order
PositionSizeCheck(r, o, acct, ctx) ==
    LET ticker == TickerPrices(ctx)
        price == IF o.price # 0 THEN o.price
                 ELSE IF o.symbol \in DOMAIN ticker THEN ticker[o.symbol]
                 ELSE 0
        order_value == o.amount * price
    IN IF r.max_position_amount # 0 /\ o.amount > r.max_position_amount THEN FALSE
       ELSE IF price = 0 THEN TRUE
       ELSE IF r.max_position_value # 0 /\ order_value > r.max_position_value
            THEN FALSE
       ELSE IF r.max_position_percentage # 0
            THEN LET equity == GetEquity(acct, QuoteAsset, ticker)
                 IN IF equity <= 0 THEN FALSE
                    ELSE ~(order_value * 100 > r.max_position_percentage * equity)
       ELSE TRUE

\* MaxDrawdownRule.check_order
MaxDrawdownCheckAtLimit(r, ctx) ==
    IF "drawdown" \notin DOMAIN ctx THEN TRUE
    ELSE ~(ctx["drawdown"] >= r.max_drawdown_percentage)

\* MaxDrawdownRule.check_order
MaxDrawdownCheck(r, ctx) ==
    IF "drawdown" \notin DOMAIN ctx THEN TRUE
    ELSE ~(ctx["drawdown"] > r.max_drawdown_percentage)

\* The day MaxTradesPerDayRule.check_order works with.
CurrentDate(ctx, today) ==
    IF "current_time" \in DOMAIN ctx THEN DateOf(ctx["current_time"]) ELSE today

\* MaxTradesPerDayRule.check_order: the rule after the day roll-over.
RolledOver(r, ctx, today) ==
    IF CurrentDate(ctx, today) # r.current_date
    THEN [r EXCEPT !.trades_today = <<>>, !.current_date = CurrentDate(ctx, today)]
    ELSE r

\* A variant in which the trade rule denies one order later.
RuleCheckOneMore(r, oid, o, acct, ctx, today) ==
    IF r.kind = "position" THEN [allow |-> PositionSizeCheck(r, o, acct, ctx), rule |-> r]
    ELSE IF r.kind = "drawdown" THEN [allow |-> MaxDrawdownCheck(r, ctx), rule |-> r]
    ELSE LET r2 == RolledOver(r, ctx, today)
         IN IF Len(r2.trades_today) > r2.max_trades
            THEN [allow |-> FALSE, rule |-> r2]
            ELSE [allow |-> TRUE,
                  rule |-> [r2 EXCEPT !.trades_today = Append(@, oid)]]

\* A variant in which the trade rule records the order before it looks at
\* the limit.
RuleCheckRecordFirst(r, oid, o, acct, ctx, today) ==
    IF r.kind = "position" THEN [allow |-> PositionSizeCheck(r, o, acct, ctx), rule |-> r]
    ELSE IF r.kind = "drawdown" THEN [allow |-> MaxDrawdownCheck(r, ctx), rule |-> r]
    ELSE LET r2 == RolledOver(r, ctx, today)
         IN [allow |-> Len(r2.trades_today) < r2.max_trades,
             rule |-> [r2 EXCEPT !.trades_today = Append(@, oid)]]

\* RiskRule.update_params: every key of params that is an attribute of the
\* rule is set, the others are skipped.
UpdateParams(r, params) ==
    [k \in DOMAIN r |-> IF k \in DOMAIN params THEN params[k] ELSE r[k]]

\* RiskRule.check_order of the three rule kinds: the answer and the rule after.
RuleCheck(r, oid, o, acct, ctx, today) ==
    IF r.kind = "position" THEN [allow |-> PositionSizeCheck(r, o, acct, ctx), rule |-> r]
    ELSE IF r.kind = "drawdown" THEN [allow |-> MaxDrawdownCheck(r, ctx), rule |-> r]
    ELSE LET r2 == RolledOver(r, ctx, today)
         IN IF Len(r2.trades_today) >= r2.max_trades
            THEN [allow |-> FALSE, rule |-> r2]
            ELSE [allow |-> TRUE,
                  rule |-> [r2 EXCEPT !.trades_today = Append(@, oid)]]

\* ------------------------------------------------------------- RiskManager
\* The position of the rule named "name", 0 when there is none.
IndexOf(rs, name) ==
    IF \E i \in 1..Len(rs) : rs[i].name = name
    THEN CHOOSE i \in 1..Len(rs) : rs[i].name = name
    ELSE 0

\* A variant of add_rule that keeps every rule it was given.
AddRuleKeepBoth(rs, rule) == Append(rs, rule)

\* RiskManager.add_rule: a dict keeps a replaced key at its position.
AddRule(rs, rule) ==
    IF IndexOf(rs, rule.name) # 0 THEN [rs EXCEPT ![IndexOf(rs, rule.name)] = rule]
    ELSE Append(rs, rule)

\* RiskManager.remove_rule
RemoveRule(rs, name) ==
    LET k == IndexOf(rs, name)
    IN IF k = 0 THEN rs
       ELSE [i \in 1..(Len(rs) - 1) |-> IF i < k THEN rs[i] ELSE rs[i + 1]]

\* RiskManager.enable_rule / disable_rule
SetEnabled(rs, name, flag) ==
    IF IndexOf(rs, name) = 0 THEN rs
    ELSE [rs EXCEPT ![IndexOf(rs, name)].enabled = flag]

\* A variant of update_context that replaces the context by its argument.
UpdateContextReplace(ctx, m) == m

\* RiskManager.update_context: dict.update, key by key
UpdateContext(ctx, m) == m @@ ctx

\* A variant of the rule loop that goes on after a denial.
RECURSIVE CheckAll(_, _, _, _, _, _, _)
CheckAll(rs, i, oid, o, acct, ctx, today) ==
    IF i > Len(rs) THEN [result |-> TRUE, rules |-> rs, evaluated |-> <<>>]
    ELSE IF ~rs[i].enabled THEN CheckAll(rs, i + 1, oid, o, acct, ctx, today)
    ELSE LET c == RuleCheck(rs[i], oid, o, acct, ctx, today)
             rest == CheckAll([rs EXCEPT ![i] = c.rule], i + 1, oid, o, acct, ctx, today)
         IN [result |-> c.allow /\ rest.result, rules |-> rest.rules,
             evaluated |-> <<rs[i].name>> \o rest.evaluated]

\* A variant of the rule loop that also asks the disabled rules.
RECURSIVE CheckDisabledToo(_, _, _, _, _, _, _)
CheckDisabledToo(rs, i, oid, o, acct, ctx, today) ==
    IF i > Len(rs) THEN [result |-> TRUE, rules |-> rs, evaluated |-> <<>>]
    ELSE LET c == RuleCheck(rs[i], oid, o, acct, ctx, today)
             rs2 == [rs EXCEPT ![i] = c.rule]
         IN IF ~c.allow
            THEN [result |-> FALSE, rules |-> rs2, evaluated |-> <<rs[i].name>>]
            ELSE LET rest == CheckDisabledToo(rs2, i + 1, oid, o, acct, ctx, today)
                 IN [rest EXCEPT !.evaluated = <<rs[i].name>> \o @]

\* RiskManager.check_order, from rule i on: the answer, the rules after the
\* call and the names of the rules that were asked.
RECURSIVE CheckFrom(_, _, _, _, _, _, _)
CheckFrom(rs, i, oid, o, acct, ctx, today) ==
    IF i > Len(rs) THEN [result |-> TRUE, rules |-> rs, evaluated |-> <<>>]
    ELSE IF ~rs[i].enabled THEN CheckFrom(rs, i + 1, oid, o, acct, ctx, today)
    ELSE LET c == RuleCheck(rs[i], oid, o, acct, ctx, today)
             rs2 == [rs EXCEPT ![i] = c.rule]
         IN IF ~c.allow
            THEN [result |-> FALSE, rules |-> rs2, evaluated |-> <<rs[i].name>>]
            ELSE LET rest == CheckFrom(rs2, i + 1, oid, o, acct, ctx, today)
                 IN [rest EXCEPT !.evaluated = <<rs[i].name>> \o @]

\* RiskManager.check_order
CheckOrder(rs, oid, o, acct, ctx, today) == CheckFrom(rs, 1, oid, o, acct, ctx, today)

\* ---------------------------------------------------------- BacktestEngine
\* Rates (commission_rate, slippage) are counted in thousandths.
InitialCapital == 100000
CommissionRate == 1
Slippage == 0

\* BacktestEngine.__init__.  strategy_id 0 is "no strategy"; the maps
\* strategy_instances and strategy_contexts are kept as their key sets;
\* candles maps a loaded symbol to a map from timeframe to candle list;
\* config is the configuration of the strategy the strategy service keeps
\* (config.symbols, config.timeframes).
NewEngine ==
    [initial_capital |-> InitialCapital, commission_rate |-> CommissionRate,
     slippage |-> Slippage,
     strategy_id |-> 0, strategy_instances |-> {}, strategy_contexts |-> {},
     risk_manager |-> FALSE, has_account |-> FALSE, is_initialized |-> FALSE,
     candles |-> <<>>,
     config |-> [symbols |-> <<"BTC/USDT">>, timeframes |-> <<"1h">>],
     orders |-> <<>>, equity_curve |-> <<>>,
     is_running |-> FALSE, current_time |-> 0]

NoRun == [phase |-> "idle", arg |-> 0, all_candles |-> <<>>, bar |-> 1,
          broke |-> FALSE, result |-> "none", metrics |-> <<>>, calls |-> 0]

\* _calculate_performance_metrics, as far as the equity curve goes: the
\* initial and the final equity (nothing for an empty curve).
PerformanceMetrics(curve) ==
    IF curve = <<>> THEN <<>>
    ELSE [initial_capital |-> curve[1][2], final_equity |-> curve[Len(curve)][2]]

\* e for e in equity_curve
EquityValues(curve) == [i \in 1..Len(curve) |-> curve[i][2]]

\* max(a, b) of two rationals with positive denominators
RatMax(a, b) == IF a[1] * b[2] >= b[1] * a[2] THEN a ELSE b

\* A variant of the drawdown that measures every fall from the first equity
\* value instead of the running peak.
RECURSIVE DrawdownFromFirst(_, _, _, _)
DrawdownFromFirst(values, i, peak_value, max_drawdown) ==
    IF i > Len(values) THEN max_drawdown
    ELSE IF values[i] > peak_value
         THEN DrawdownFromFirst(values, i + 1, peak_value, max_drawdown)
    ELSE DrawdownFromFirst(values, i + 1, peak_value,
             RatMax(max_drawdown, Norm(<<peak_value - values[i], peak_value>>)))

\* The drawdown loop of _calculate_performance_metrics from position i on:
\* a value above the peak becomes the peak, any other value is measured
\* against it.
RECURSIVE DrawdownLoop(_, _, _, _)
DrawdownLoop(values, i, peak_value, max_drawdown) ==
    IF i > Len(values) THEN max_drawdown
    ELSE IF values[i] > peak_value
         THEN DrawdownLoop(values, i + 1, values[i], max_drawdown)
    ELSE DrawdownLoop(values, i + 1, peak_value,
             RatMax(max_drawdown, Norm(<<peak_value - values[i], peak_value>>)))

\* _calculate_performance_metrics: the metrics of the equity curve, with
\* max_drawdown as an exact rational (nothing for an empty curve).
EquityMetrics(curve) ==
    IF curve = <<>> THEN <<>>
    ELSE [initial_capital |-> curve[1][2], final_equity |-> curve[Len(curve)][2],
          max_drawdown |-> DrawdownLoop(EquityValues(curve), 1, curve[1][2], <<0, 1>>)]

EngineUnused ==
    /\ eng = NewEngine
    /\ ctxOrders = <<>>
    /\ run = NoRun
    /\ log = <<>>

\* _create_backtest_account: initial_capital USDT, nothing else
BacktestAccount(capital) == "USDT" :> [free |-> capital, locked |-> 0]

\* A variant of the insertion that puts a candle before those of its own
\* timestamp: the sort built on it is not stable.
RECURSIVE InsertBeforeEqual(_, _)
InsertBeforeEqual(c, sorted) ==
    IF sorted = <<>> THEN <<c>>
    ELSE IF c.timestamp <= sorted[1].timestamp THEN <<c>> \o sorted
    ELSE <<sorted[1]>> \o InsertBeforeEqual(c, Tail(sorted))

\* list.sort(key=timestamp): a stable insertion sort
RECURSIVE InsertByTime(_, _)
InsertByTime(c, sorted) ==
    IF sorted = <<>> THEN <<c>>
    ELSE IF c.timestamp < sorted[1].timestamp THEN <<c>> \o sorted
    ELSE <<sorted[1]>> \o InsertByTime(c, Tail(sorted))

RECURSIVE SortByTime(_)
SortByTime(cs) ==
    IF cs = <<>> THEN <<>>
    ELSE InsertByTime(cs[Len(cs)], SortByTime(SubSeq(cs, 1, Len(cs) - 1)))

\* Does the engine hold candles for the symbol and timeframe?
IsLoaded(candles, symbol, timeframe) ==
    symbol \in DOMAIN candles /\ timeframe \in DOMAIN candles[symbol]

\* self.candles[symbol][timeframe] = cs
StoreCandles(candles, symbol, timeframe, cs) ==
    IF symbol \in DOMAIN candles
    THEN [candles EXCEPT ![symbol] = (timeframe :> cs) @@ @]
    ELSE (symbol :> (timeframe :> cs)) @@ candles

\* The two nested loops of run_backtest that gather the loaded candles:
\* symbols[i] for i in order, timeframes[j] for j in order, each list in its
\* own order.
RECURSIVE CollectCandles(_, _, _, _, _)
CollectCandles(symbols, timeframes, candles, i, j) ==
    IF i > Len(symbols) THEN <<>>
    ELSE IF j > Len(timeframes)
    THEN CollectCandles(symbols, timeframes, candles, i + 1, 1)
    ELSE (IF IsLoaded(candles, symbols[i], timeframes[j])
          THEN candles[symbols[i]][timeframes[j]] ELSE <<>>)
         \o CollectCandles(symbols, timeframes, candles, i, j + 1)

\* all_candles of run_backtest: gathered, then sorted by timestamp.
AllCandles(config, candles) ==
    CHOOSE sorted \in {SortByTime(cs) :
                cs \in {CollectCandles(config.symbols, config.timeframes,
                                       candles, 1, 1)}} : TRUE

\* An entry of the log: what was done to which order on which bar, and the
\* account balances at that moment.
Event(kind, oid, bar, allowed, site, acct) ==
    [kind |-> kind, oid |-> oid, bar |-> bar, allowed |-> allowed, site |-> site,
     acct |-> acct]

\* The execution price of _process_order: the close moved by the slippage.
ExecutionPrice(side, close, slippage) ==
    IF side = "buy" THEN (close * (1000 + slippage)) \div 1000
    ELSE (close * (1000 - slippage)) \div 1000

\* The fee of _process_order.
Fee(amount, price, rate) == (amount * price * rate) \div 1000

\* The balance updates of _process_order (lines 289-325).
SettleFill(acct, o, price, fee) ==
    LET base == BaseOf(o.symbol)
        quote == QuoteOf(o.symbol)
        zero == [free |-> 0, locked |-> 0]
    IN IF o.side = "buy"
       THEN LET a1 == IF quote \in DOMAIN acct
                      THEN [acct EXCEPT ![quote].free = @ - (o.amount * price + fee)]
                      ELSE acct
                a2 == IF base \in DOMAIN a1 THEN a1 ELSE (base :> zero) @@ a1
            IN [a2 EXCEPT ![base].free = @ + o.amount]
       ELSE LET a1 == IF base \in DOMAIN acct
                      THEN [acct EXCEPT ![base].free = @ - o.amount]
                      ELSE acct
                a2 == IF quote \in DOMAIN a1 THEN a1 ELSE (quote :> zero) @@ a1
            IN [a2 EXCEPT ![quote].free = @ + (o.amount * price - fee)]

\* The objects one bar works on: the orders, the rules, the account, the
\* engine's orders list, the context's orders, the log, and whether an
\* exception is on its way up.
BarState(os, rs, acct, engOrders, cos, lg) ==
    [orders |-> os, rules |-> rs, account |-> acct, engOrders |-> engOrders,
     ctxOrders |-> cos, log |-> lg, raised |-> FALSE]

\* A variant of the simulated fill that puts every order it is handed in the
\* engine's orders list, filled or not.
FillOrderListAll(st, e, oid, candle, bar) ==
    LET o == st.orders[oid]
        price == ExecutionPrice(o.side, candle.close, e.slippage)
        fee == Fee(o.amount, price, e.commission_rate)
        f == OrderFill(o, o.amount, price)
    IN IF o.status # "OPEN" /\ o.status # "PARTIALLY_FILLED"
       THEN [st EXCEPT !.engOrders = Append(@, oid)]
       ELSE IF e.strategy_id \notin e.strategy_contexts THEN st
       ELSE IF ~f.ok THEN [st EXCEPT !.raised = TRUE]
       ELSE [st EXCEPT !.orders[oid] = f.o,
                       !.account = SettleFill(@, o, price, fee),
                       !.engOrders = Append(@, oid),
                       !.log = Append(@, Event("fill", oid, bar, TRUE, "engine",
                                               SettleFill(st.account, o, price, fee)))]

\* _process_order after the risk check (lines 258-328): the simulated fill.
FillOrder(st, e, oid, candle, bar) ==
    LET o == st.orders[oid]
        price == ExecutionPrice(o.side, candle.close, e.slippage)
        fee == Fee(o.amount, price, e.commission_rate)
        f == OrderFill(o, o.amount, price)
    IN IF o.status # "OPEN" /\ o.status # "PARTIALLY_FILLED" THEN st
       ELSE IF e.strategy_id \notin e.strategy_contexts THEN st
       ELSE IF ~f.ok THEN [st EXCEPT !.raised = TRUE]
       ELSE [st EXCEPT !.orders[oid] = f.o,
                       !.account = SettleFill(@, o, price, fee),
                       !.engOrders = Append(@, oid),
                       !.log = Append(@, Event("fill", oid, bar, TRUE, "engine",
                                               SettleFill(st.account, o, price, fee)))]

\* A variant of _process_order without the risk check.
ProcessOrderNoGate(st, e, oid, candle, bar, ctx, today) ==
    IF ~e.has_account THEN st ELSE FillOrder(st, e, oid, candle, bar)

\* A variant of _process_order that asks the risk manager and goes on to the
\* fill whatever the answer.
ProcessOrderIgnoreDenial(st, e, oid, candle, bar, ctx, today) ==
    LET c == CheckOrder(st.rules, oid, st.orders[oid], st.account, ctx, today)
        checked == [st EXCEPT !.rules = c.rules,
                              !.log = Append(@, Event("check", oid, bar, c.result,
                                                      "engine", st.account))]
    IN IF ~e.has_account THEN st
       ELSE IF e.risk_manager THEN FillOrder(checked, e, oid, candle, bar)
       ELSE FillOrder(st, e, oid, candle, bar)

\* BacktestEngine._process_order
ProcessOrder(st, e, oid, candle, bar, ctx, today) ==
    LET o == st.orders[oid]
        c == CheckOrder(st.rules, oid, o, st.account, ctx, today)
        checked == [st EXCEPT !.rules = c.rules,
                              !.log = Append(@, Event("check", oid, bar, c.result,
                                                      "engine", st.account))]
        r == OrderReject(o)
    IN IF ~e.has_account THEN st
       ELSE IF e.risk_manager /\ ~c.result
            THEN IF ~r.ok THEN [checked EXCEPT !.raised = TRUE]
                 ELSE [checked EXCEPT
                          !.orders[oid] = r.o,
                          !.log = Append(@, Event("reject", oid, bar, FALSE, "engine",
                                                  st.account))]
       ELSE IF e.risk_manager THEN FillOrder(checked, e, oid, candle, bar)
       ELSE FillOrder(st, e, oid, candle, bar)

\* A variant of the order loops that leaves out the loop over the open
\* orders of the context.
RECURSIVE ProcessOrdersNewOnly(_, _, _, _, _, _, _, _, _)
ProcessOrdersNewOnly(st, e, ids, i, onlyOpen, candle, bar, ctx, today) ==
    IF onlyOpen \/ st.raised \/ i > Len(ids) THEN st
    ELSE CHOOSE after \in
             {ProcessOrdersNewOnly(s, e, ids, i + 1, onlyOpen, candle, bar, ctx, today) :
                 s \in {ProcessOrder(st, e, ids[i], candle, bar, ctx, today)}} : TRUE

\* _process_order for each of the orders "ids" in turn, from position i on;
\* an exception ends the loop.  With onlyOpen, an order is passed on only
\* when it is OPEN at its turn (run_backtest lines 450-452).
RECURSIVE ProcessOrders(_, _, _, _, _, _, _, _, _)
ProcessOrders(st, e, ids, i, onlyOpen, candle, bar, ctx, today) ==
    IF st.raised \/ i > Len(ids) THEN st
    ELSE IF onlyOpen /\ st.orders[ids[i]].status # "OPEN"
         THEN ProcessOrders(st, e, ids, i + 1, onlyOpen, candle, bar, ctx, today)
    ELSE CHOOSE after \in
             {ProcessOrders(s, e, ids, i + 1, onlyOpen, candle, bar, ctx, today) :
                 s \in {ProcessOrder(st, e, ids[i], candle, bar, ctx, today)}} : TRUE

\* _update_account_snapshot: the equity at the last loaded close of each
\* asset's USDT pair.
RECURSIVE SnapshotSum(_, _, _)
SnapshotSum(assets, acct, candles) ==
    IF assets = {} THEN 0
    ELSE LET a == CHOOSE x \in assets : TRUE
             symbol == SymbolOf(a, "USDT")
             value == IF a = "USDT" THEN Total(acct[a])
                      ELSE IF IsLoaded(candles, symbol, "1h")
                              /\ candles[symbol]["1h"] # <<>>
                           THEN Total(acct[a])
                                * candles[symbol]["1h"][Len(candles[symbol]["1h"])].close
                      ELSE 0
         IN value + SnapshotSum(assets \ {a}, acct, candles)

SnapshotEquity(acct, candles) == SnapshotSum(DOMAIN acct, acct, candles)

\* A variant of _update_account_snapshot that keeps one point per timestamp
\* value and overwrites the latest point otherwise.
UpdateSnapshotInPlace(curve, contexts, timestamp, acct, candles) ==
    IF contexts = {} THEN curve
    ELSE IF curve = <<>> THEN <<<<timestamp, SnapshotEquity(acct, candles)>>>>
    ELSE [curve EXCEPT ![Len(curve)] = <<timestamp, SnapshotEquity(acct, candles)>>]

\* _update_account_snapshot: nothing without a strategy context, else one
\* more point on the equity curve.
UpdateAccountSnapshot(curve, contexts, timestamp, acct, candles) ==
    IF contexts = {} THEN curve
    ELSE Append(curve, <<timestamp, SnapshotEquity(acct, candles)>>)

\* ------------------------------------------- SpecOrder: one order, any calls
NoCheck == [n |-> 0, oid |-> 0, result |-> FALSE, evaluated |-> <<>>, site |-> "none"]

NoCall == [op |-> "none", id |-> 0, ok |-> FALSE, amount |-> 0,
           before |-> NewOrder("BTC/USDT", 0, "buy", 0)]

\* What a caller may ask for: no validation limits the requested amount.
ReqAmounts == (0 - 1) .. (MaxAmount + 1)
\* Fill amounts tried, the invalid ones included.
FillAmounts == (0 - 1) .. (MaxAmount + 1)

InitOrder ==
    /\ \E a \in ReqAmounts, s \in Sides : orders = <<NewOrder("BTC/USDT", a, s, 0)>>
    /\ call = NoCall
    /\ ncalls = 0
    /\ rules = <<>>
    /\ riskCtx = <<>>
    /\ wallDate = 0
    /\ account = <<>>
    /\ chk = NoCheck
    /\ EngineUnused

Apply(op, amount, r) ==
    /\ ncalls < MaxCalls
    /\ orders' = [orders EXCEPT ![1] = r.o]
    /\ call' = [op |-> op, id |-> 1, ok |-> r.ok, amount |-> amount,
                before |-> orders[1]]
    /\ ncalls' = ncalls + 1
    /\ UNCHANGED <<riskVars, engVars>>

CallSubmit == Apply("submit", 0, OrderSubmit(orders[1]))
CallFill == \E a \in FillAmounts, p \in Prices :
                Apply("fill", a, OrderFill(orders[1], a, p))
CallCancel == Apply("cancel", 0, OrderCancel(orders[1]))
CallReject == Apply("reject", 0, OrderReject(orders[1]))
CallExpire == Apply("expire", 0, OrderExpire(orders[1]))

NextOrder == CallSubmit \/ CallFill \/ CallCancel \/ CallReject \/ CallExpire

SpecOrder == InitOrder /\ [][NextOrder]_vars

C3_TerminalImmutable ==
    (call.op # "none" /\ IsClosed(call.before)) =>
        /\ ~call.ok
        /\ orders[call.id].status = call.before.status
        /\ orders[call.id].filled_amount = call.before.filled_amount
        /\ orders[call.id].remaining_amount = call.before.remaining_amount
        /\ orders[call.id].average_price = call.before.average_price
        /\ orders[call.id].trades = call.before.trades

\* cancel was called on a FILLED order
C3_Witness ==
    /\ call.op = "cancel" /\ call.before.status = "FILLED"
    /\ orders[1].status = "FILLED" /\ Len(orders[1].trades) > 0

\* C10 as stated: Order.fill succeeds only when the order is OPEN or
\* PARTIALLY_FILLED; a fill on a PENDING order fails and changes nothing.
C10_FillOnlyWhenOpen ==
    (call.op = "fill" /\ call.ok) =>
        call.before.status \in {"OPEN", "PARTIALLY_FILLED"}

\* The sum of amount * price over the trades of an order
RECURSIVE TradeValue(_)
TradeValue(trades) ==
    IF trades = <<>> THEN 0
    ELSE trades[1][1] * trades[1][2] + TradeValue(Tail(trades))

C24_SubmitFromPending ==
    call.op = "submit" =>
        /\ call.ok <=> call.before.status = "PENDING"
        /\ call.ok =>
            /\ orders[call.id].status = "OPEN"
            /\ orders[call.id].exchange_order_id # 0
        /\ ~call.ok => orders[call.id] = call.before

\* Reached: submit was refused on a PARTIALLY_FILLED order that had never
\* been submitted.
C24_Witness ==
    /\ call.op = "submit" /\ ~call.ok
    /\ call.before.status = "PARTIALLY_FILLED"
    /\ orders[1].exchange_order_id = 0

\* C25: Order.cancel succeeds from each of PENDING, OPEN and
\* PARTIALLY_FILLED, moving the order to CANCELED without changing
\* filled_amount, remaining_amount or average_price; from a terminal status
\* it fails.
C25_CancelFromOpenStates ==
    call.op = "cancel" =>
        /\ call.ok <=> call.before.status \in {"PENDING", "OPEN", "PARTIALLY_FILLED"}
        /\ call.ok => orders[call.id].status = "CANCELED"
        /\ ~call.ok => orders[call.id].status = call.before.status
        /\ orders[call.id].filled_amount = call.before.filled_amount
        /\ orders[call.id].remaining_amount = call.before.remaining_amount
        /\ orders[call.id].average_price = call.before.average_price

\* Reached: a PARTIALLY_FILLED order was cancelled and kept what it had
\* filled.
C25_Witness ==
    /\ call.op = "cancel" /\ call.ok
    /\ call.before.status = "PARTIALLY_FILLED"
    /\ orders[1].status = "CANCELED"
    /\ orders[1].filled_amount > 0 /\ orders[1].remaining_amount > 0
    /\ orders[1].average_price # NoPrice

\* C26: Order.reject succeeds only from PENDING or OPEN; on a
\* PARTIALLY_FILLED order and on every terminal order it fails and the
\* status is unchanged, so an order with a non-zero filled_amount is never
\* REJECTED.
C26_RejectOnlyUnfilled ==
    /\ call.op = "reject" =>
        /\ call.ok <=> call.before.status \in {"PENDING", "OPEN"}
        /\ call.ok => orders[call.id].status = "REJECTED"
        /\ ~call.ok => orders[call.id].status = call.before.status
    /\ \A i \in DOMAIN orders :
        orders[i].status = "REJECTED" => orders[i].filled_amount = 0

\* Reached: reject was refused on a PARTIALLY_FILLED order.
C26_Witness ==
    /\ call.op = "reject" /\ ~call.ok
    /\ call.before.status = "PARTIALLY_FILLED"
    /\ orders[1].status = "PARTIALLY_FILLED" /\ orders[1].filled_amount > 0

\* C11: Order.fill with amount <= 0 or amount > remaining_amount raises and
\* leaves status, filled_amount, remaining_amount, average_price and the
\* trades unchanged; an over-sized fill is never clamped to what remains.
C11_BadFillRaises ==
    (call.op = "fill"
        /\ (call.amount <= 0 \/ call.amount > call.before.remaining_amount)) =>
        /\ ~call.ok
        /\ orders[call.id].status = call.before.status
        /\ orders[call.id].filled_amount = call.before.filled_amount
        /\ orders[call.id].remaining_amount = call.before.remaining_amount
        /\ orders[call.id].average_price = call.before.average_price
        /\ orders[call.id].trades = call.before.trades

\* An over-sized fill was tried on an order that is open with one unit filled.
C11_Witness ==
    /\ call.op = "fill" /\ call.amount > call.before.remaining_amount
    /\ call.before.status = "PARTIALLY_FILLED"
    /\ call.before.remaining_amount > 0
    /\ orders[1] = call.before

\* ------------------------------ SpecRisk: a RiskManager driven by its caller
\* The account of the rule checks: 1000 USDT, nothing else.
TestAccount == "USDT" :> [free |-> 1000, locked |-> 0]

RuleTemplates(today) ==
    {PositionSizeRule(1, 0, 0), MaxDrawdownRule(10)}
    \cup {MaxTradesPerDayRule(n, today) : n \in 1..MaxTradesLimit}

RuleNames == {PositionName, DrawdownName, TradesName}

ContextUpdates ==
    {"drawdown" :> 5, "drawdown" :> 15, "current_time" :> DayLen}

InitRisk ==
    /\ orders = <<>>
    /\ call = NoCall
    /\ ncalls = 0
    /\ rules = <<>>
    /\ riskCtx = <<>>
    /\ wallDate = 0
    /\ account = TestAccount
    /\ chk = NoCheck
    /\ EngineUnused

\* What a check_order call leaves behind.
Checked(oid, site, c) ==
    [n |-> chk.n + 1, oid |-> oid, result |-> c.result,
     evaluated |-> c.evaluated, site |-> site]

\* The caller sets the manager up before the first check.
RiskAddRule ==
    \E r \in RuleTemplates(wallDate) :
        /\ chk.n = 0
        /\ rules' = AddRule(rules, r)
        /\ UNCHANGED <<orderVars, riskCtx, wallDate, account, chk, engVars>>

RiskRemoveRule ==
    \E n \in RuleNames :
        /\ chk.n = 0
        /\ rules' = RemoveRule(rules, n)
        /\ UNCHANGED <<orderVars, riskCtx, wallDate, account, chk, engVars>>

RiskEnableRule ==
    \E n \in RuleNames :
        /\ rules' = SetEnabled(rules, n, TRUE)
        /\ UNCHANGED <<orderVars, riskCtx, wallDate, account, chk, engVars>>

RiskDisableRule ==
    \E n \in RuleNames :
        /\ rules' = SetEnabled(rules, n, FALSE)
        /\ UNCHANGED <<orderVars, riskCtx, wallDate, account, chk, engVars>>

RiskUpdateContext ==
    \E m \in ContextUpdates :
        /\ riskCtx' = UpdateContext(riskCtx, m)
        /\ UNCHANGED <<orderVars, rules, wallDate, account, chk, engVars>>

\* check_order on an order just created
RiskCheckNew ==
    \E a \in {1, MaxAmount} :
        LET o == NewOrder("BTC/USDT", a, "buy", 0)
            oid == Len(orders) + 1
            c == CheckOrder(rules, oid, o, account, riskCtx, wallDate)
        IN /\ chk.n < MaxChecks
           /\ orders' = Append(orders, o)
           /\ rules' = c.rules
           /\ chk' = Checked(oid, "caller", c)
           /\ UNCHANGED <<call, ncalls, riskCtx, wallDate, account, engVars>>

\* check_order on an order that was checked before
RiskCheckAgain ==
    \E oid \in 1..Len(orders) :
        LET c == CheckOrder(rules, oid, orders[oid], account, riskCtx, wallDate)
        IN /\ chk.n < MaxChecks
           /\ rules' = c.rules
           /\ chk' = Checked(oid, "caller", c)
           /\ UNCHANGED <<orderVars, riskCtx, wallDate, account, engVars>>

NextRisk ==
    \/ RiskAddRule \/ RiskRemoveRule \/ RiskEnableRule \/ RiskDisableRule
    \/ RiskUpdateContext \/ RiskCheckNew \/ RiskCheckAgain

SpecRisk == InitRisk /\ [][NextRisk]_vars

\* ------------------------------------------------- claims on the RiskManager
\* Whether rule r, asked on its own in the state before the call, allows.
Allows(r, oid) ==
    RuleCheck(r, oid, orders'[oid], account, riskCtx, wallDate).allow

\* C7: check_order asks the enabled rules in insertion order and stops at the
\* first denial: an enabled MaxTradesPerDayRule records the order id if and
\* only if every enabled rule inserted before it allowed the order and the
\* trade rule itself allowed it, whatever a rule inserted after it answers.
\* Recording appends the id to the day's list (emptied first when the day
\* changed); otherwise nothing is appended.
C7_RecordsIffReached ==
    [][chk'.n # chk.n =>
        \A i \in 1..Len(rules) :
            (rules[i].kind = "trades" /\ rules[i].enabled) =>
                LET rolled == RolledOver(rules[i], riskCtx, wallDate).trades_today
                IN IF /\ \A j \in 1..(i - 1) :
                            rules[j].enabled => Allows(rules[j], chk'.oid)
                      /\ Allows(rules[i], chk'.oid)
                   THEN rules'[i].trades_today = Append(rolled, chk'.oid)
                   ELSE rules'[i].trades_today \in {rules[i].trades_today, rolled}
    ]_vars

\* The trade rule recorded the order and the drawdown rule after it denied it.
C7_Witness ==
    /\ chk.n > 0 /\ ~chk.result
    /\ Len(chk.evaluated) >= 2
    /\ chk.evaluated[Len(chk.evaluated)] = DrawdownName
    /\ chk.evaluated[Len(chk.evaluated) - 1] = TradesName
    /\ \E i \in 1..Len(rules) :
          /\ rules[i].kind = "trades"
          /\ Len(rules[i].trades_today) > 0
          /\ rules[i].trades_today[Len(rules[i].trades_today)] = chk.oid

\* C8: check_order returns true exactly when every enabled rule allows the
\* order; a disabled rule is never asked and never changes the answer, and a
\* manager with no enabled rule allows every order.
C8_AllEnabledAllow ==
    [][chk'.n # chk.n =>
        /\ chk'.result =
              (\A i \in 1..Len(rules) : rules[i].enabled => Allows(rules[i], chk'.oid))
        /\ \A i \in 1..Len(rules) :
              ~rules[i].enabled =>
                  /\ rules'[i] = rules[i]
                  /\ \A k \in 1..Len(chk'.evaluated) : chk'.evaluated[k] # rules[i].name
        /\ (\A i \in 1..Len(rules) : ~rules[i].enabled) => chk'.result
    ]_vars

\* An order was allowed although a disabled drawdown rule would have denied it.
C8_Witness ==
    /\ chk.n > 0 /\ chk.result
    /\ Len(chk.evaluated) > 0
    /\ "drawdown" \in DOMAIN riskCtx /\ riskCtx["drawdown"] = 15
    /\ \E i \in 1..Len(rules) : rules[i].kind = "drawdown" /\ ~rules[i].enabled

\* ------------------- SpecTrades: a RiskManager whose only rule is the trade rule
MaxTradeChecks == 4 \* check_order calls made (SpecTrades)
MaxWallDate == 1    \* last wall-clock day reached (SpecTrades)

\* The simulated times a caller puts in the context: one in each of two days.
SimTimes == {DayLen, 2 * DayLen}

InitTrades ==
    /\ orders = <<>>
    /\ call = NoCall
    /\ ncalls = 0
    /\ wallDate = 0
    /\ \E n \in 1..(MaxTradesLimit + 1) : rules = <<MaxTradesPerDayRule(n, wallDate)>>
    /\ riskCtx = <<>>
    /\ account = TestAccount
    /\ chk = NoCheck
    /\ EngineUnused

\* risk_manager.update_context({"current_time": t})
TradesSetTime ==
    \E t \in SimTimes :
        /\ riskCtx' = UpdateContext(riskCtx, "current_time" :> t)
        /\ UNCHANGED <<orderVars, rules, wallDate, account, chk, engVars>>

\* Midnight passes on the wall clock.
TradesWallTick ==
    /\ wallDate < MaxWallDate
    /\ wallDate' = wallDate + 1
    /\ UNCHANGED <<orderVars, rules, riskCtx, account, chk, engVars>>

\* check_order on order oid; the log keeps the answer and, as "bar", the day
\* the rule worked with.
TradesCheck(oid, o) ==
    LET c == CheckOrder(rules, oid, o, account, riskCtx, wallDate)
    IN /\ chk.n < MaxTradeChecks
       /\ rules' = c.rules
       /\ chk' = Checked(oid, "caller", c)
       /\ log' = Append(log, Event("check", oid, CurrentDate(riskCtx, wallDate),
                                   c.result, "caller", account))
       /\ UNCHANGED <<call, ncalls, riskCtx, wallDate, account, eng, ctxOrders, run>>

\* check_order on an order just created
TradesCheckNew ==
    /\ orders' = Append(orders, NewOrder("BTC/USDT", 1, "buy", 0))
    /\ TradesCheck(Len(orders) + 1, NewOrder("BTC/USDT", 1, "buy", 0))

\* check_order on an order that was checked before
TradesCheckAgain ==
    \E oid \in 1..Len(orders) :
        /\ orders' = orders
        /\ TradesCheck(oid, orders[oid])

NextTrades ==
    TradesSetTime \/ TradesWallTick \/ TradesCheckNew \/ TradesCheckAgain

SpecTrades == InitTrades /\ [][NextTrades]_vars

\* ------------------------------------------------- claims on the trade rule
\* The first check of the stretch of checks made on one day that check k is in.
DayStart(k) ==
    CHOOSE s \in 1..k :
        /\ \A j \in s..k : log[j].bar = log[k].bar
        /\ s > 1 => log[s - 1].bar # log[k].bar

\* The checks from s to k are all of different orders.
Distinct(s, k) ==
    \A i \in s..k : \A j \in s..k : i # j => log[i].oid # log[j].oid

\* C12: with MaxTradesPerDayRule(max_trades = N) as the only rule and the day
\* fixed, the first N distinct orders checked are allowed and every further
\* order checked that day is denied; after the day changes, the next order
\* checked is allowed again.
C12_FirstNAllowed ==
    \A k \in 1..Len(log) :
        Distinct(DayStart(k), k) =>
            log[k].allowed = (k - DayStart(k) < rules[1].max_trades)

\* With the time taken from the context, the orders of a day were allowed up
\* to the limit, the next one was denied, and the first of the next day was
\* allowed.
C12_Witness ==
    /\ "current_time" \in DOMAIN riskCtx
    /\ \E k \in 2..Len(log) :
          /\ Distinct(1, k)
          /\ DayStart(k) = k /\ log[k].allowed
          /\ ~log[k - 1].allowed
          /\ k - 1 - DayStart(k - 1) = rules[1].max_trades
          /\ \A j \in DayStart(k - 1)..(k - 2) : log[j].allowed

\* ------------------------------------- Spec: one engine, one strategy, one run
MaxBars == 2        \* most candles the data source returns
MaxOrders == 2      \* most orders the strategy creates in a run

Closes == {10000, 20000}
StartTime == 0

\* The candles of a series are an hour apart, or a day apart.
CandleSteps == {1, DayLen}

\* What get_historical_candles may return for BTC/USDT 1h: up to MaxBars
\* candles after the start, in time order.
CandleLists ==
    UNION {{[k \in 1..n |-> [symbol |-> "BTC/USDT", timeframe |-> "1h",
                            timestamp |-> StartTime + k * step,
                            close |-> f[k]]] : f \in [1..n -> Closes],
                                               step \in CandleSteps}
           : n \in 0..MaxBars}

\* The rules a caller installs before a run.
EngineRules(today) ==
    {PositionSizeRule(1, 0, 0)}
    \cup {MaxTradesPerDayRule(n, today) : n \in 1..MaxTradesLimit}

\* What on_candle does on one bar: it raises, or does nothing, or creates an
\* order through the context, and then may submit it and may put it in its
\* result (StrategyResult.orders is the list of the orders created).
Move(kind, side, amount, submit, returned) ==
    [kind |-> kind, side |-> side, amount |-> amount, submit |-> submit,
     returned |-> returned]

StrategyMoves(created) ==
    {Move("raise", "buy", 0, FALSE, FALSE), Move("none", "buy", 0, FALSE, FALSE)}
    \cup {Move("create", s, a, sub, ret) :
             s \in (IF created < MaxOrders THEN Sides ELSE {}),
             a \in {1, MaxAmount}, sub \in BOOLEAN, ret \in BOOLEAN}

Init ==
    /\ orders = <<>>
    /\ call = NoCall
    /\ ncalls = 0
    /\ rules = <<>>
    /\ riskCtx = <<>>
    /\ wallDate = 0
    /\ account = <<>>
    /\ chk = NoCheck
    /\ EngineUnused

\* BacktestEngine.create_strategy; with ~ok the strategy class raises in its
\* constructor and None is returned.
CreateStrategy ==
    \E ok \in BOOLEAN :
        /\ run.phase = "idle" /\ eng.strategy_id = 0
        /\ account' = BacktestAccount(eng.initial_capital)
        /\ rules' = <<>>
        /\ riskCtx' = <<>>
        /\ eng' = [eng EXCEPT !.has_account = TRUE, !.risk_manager = TRUE,
                              !.strategy_id = IF ok THEN 1 ELSE 0]
        /\ ctxOrders' = <<>>
        /\ UNCHANGED <<orderVars, wallDate, chk, run, log>>

\* The caller enters the created instance and context in the engine's
\* strategy_instances and strategy_contexts maps.
RegisterStrategy ==
    /\ run.phase = "idle" /\ eng.strategy_id # 0
    /\ eng.strategy_id \notin eng.strategy_instances
    /\ eng' = [eng EXCEPT !.strategy_instances = @ \cup {eng.strategy_id},
                          !.strategy_contexts = @ \cup {eng.strategy_id}]
    /\ UNCHANGED <<orderVars, riskVars, ctxOrders, run, log>>

\* The caller adds a rule: engine.risk_manager.add_rule(rule)
InstallRule ==
    \E r \in EngineRules(wallDate) :
        /\ run.phase = "idle" /\ eng.risk_manager
        /\ rules' = AddRule(rules, r)
        /\ UNCHANGED <<orderVars, riskCtx, wallDate, account, chk, engVars>>

\* The caller takes the risk manager off the engine: engine.risk_manager = None
RemoveRiskManager ==
    /\ run.phase = "idle" /\ eng.risk_manager
    /\ eng' = [eng EXCEPT !.risk_manager = FALSE]
    /\ UNCHANGED <<orderVars, riskVars, ctxOrders, run, log>>

\* A variant of StrategyContext.create_order that keeps and returns the
\* order whatever the risk manager answers.
ContextCreateOrderKeep(st, side, amount, bar, ctx, today) ==
    LET o == NewOrder("BTC/USDT", amount, side, 0)
        oid == Len(st.orders) + 1
        c == CheckOrder(st.rules, oid, o, st.account, ctx, today)
    IN [st |-> [st EXCEPT !.orders = Append(@, o),
                          !.rules = c.rules,
                          !.log = Append(@, Event("check", oid, bar, c.result,
                                                  "context", st.account)),
                          !.ctxOrders = Append(@, oid)],
        kept |-> TRUE, oid |-> oid]

\* StrategyContext.create_order for a market order: the order is built and
\* saved, the context's risk manager is asked, and a denied order is not
\* kept (None is returned).  "kept" tells whether the order was returned.
ContextCreateOrder(st, side, amount, bar, ctx, today) ==
    LET o == NewOrder("BTC/USDT", amount, side, 0)
        oid == Len(st.orders) + 1
        c == CheckOrder(st.rules, oid, o, st.account, ctx, today)
        made == [st EXCEPT !.orders = Append(@, o),
                           !.rules = c.rules,
                           !.log = Append(@, Event("check", oid, bar, c.result,
                                                   "context", st.account))]
    IN IF ~c.result THEN [st |-> made, kept |-> FALSE, oid |-> oid]
       ELSE [st |-> [made EXCEPT !.ctxOrders = Append(@, oid)],
             kept |-> TRUE, oid |-> oid]

\* A variant of on_candle whose exception is lost: the call comes back with
\* an empty result.
OnCandleSwallowed(st0, m, bar, ctx, today) ==
    [st |-> [st0 EXCEPT !.log = Append(Append(@,
                            Event("on_candle", 0, bar, TRUE, "strategy", st0.account)),
                            Event("raised", 0, bar, FALSE, "strategy", st0.account))],
     result |-> <<>>]

\* strategy.on_candle making the move m: the objects after it and the orders
\* of its StrategyResult.  The log gets an "on_candle" entry as the call
\* starts and a "raised" entry when it ends in an exception.
OnCandle(st0, m, bar, ctx, today) ==
    LET st == [st0 EXCEPT !.log = Append(@, Event("on_candle", 0, bar, TRUE,
                                                  "strategy", st0.account))]
    IN
    IF m.kind = "raise"
    THEN [st |-> [st EXCEPT !.raised = TRUE,
                            !.log = Append(@, Event("raised", 0, bar, FALSE,
                                                    "strategy", st0.account))],
          result |-> <<>>]
    ELSE IF m.kind = "none" THEN [st |-> st, result |-> <<>>]
    ELSE LET c == ContextCreateOrder(st, m.side, m.amount, bar, ctx, today)
             s1 == IF m.submit
                   THEN [c.st EXCEPT !.orders[c.oid] = OrderSubmit(@).o]
                   ELSE c.st
         IN IF ~c.kept THEN [st |-> c.st, result |-> <<>>]
            ELSE IF ~m.returned THEN [st |-> s1, result |-> <<>>]
            ELSE [st |-> [s1 EXCEPT !.log = Append(@, Event("returned", c.oid, bar,
                                                            TRUE, "strategy",
                                                            st.account))],
                  result |-> <<c.oid>>]

\* A variant of the test of line 402 that is always true.
AlwaysInitialize(e) == TRUE

\* run_backtest line 402: initialize only an instance that is not initialized
NeedsInitialize(e) == ~e.is_initialized

\* run_backtest up to the bar loop (lines 387-436), for a caller that makes
\* at most "limit" calls on an engine whose data source answers with one of
\* "lists".  The strategy's initialize() may raise (~initOk); the log gets an
\* "initialize" entry for each call of it.  cs is what the data source
\* returns when the candles are not held yet.
RunBacktestCall(limit, lists) ==
    \E id \in {1, 2}, initOk \in BOOLEAN, cs \in lists :
        LET loaded == IF IsLoaded(eng.candles, "BTC/USDT", "1h") THEN eng.candles
                      ELSE StoreCandles(eng.candles, "BTC/USDT", "1h", cs)
            e1 == [eng EXCEPT !.is_initialized = TRUE, !.is_running = TRUE,
                              !.current_time = StartTime, !.orders = <<>>,
                              !.candles = loaded]
            called == [NoRun EXCEPT !.arg = id, !.calls = run.calls + 1]
            tried == Append(log, Event("initialize", 0, 0, initOk, "engine", account))
        IN /\ run.phase \in {"idle", "returned"}
           /\ run.calls < limit
           /\ IF id \notin eng.strategy_instances
              THEN /\ run' = [called EXCEPT !.phase = "returned",
                                            !.result = "not_found"]
                   /\ eng' = eng
                   /\ log' = log
              ELSE IF NeedsInitialize(eng) /\ ~initOk
              THEN /\ run' = [called EXCEPT !.phase = "returned",
                                            !.result = "init_failed"]
                   /\ eng' = eng
                   /\ log' = tried
              ELSE /\ run' = [called EXCEPT !.phase = "replay",
                                            !.all_candles = AllCandles(eng.config, loaded)]
                   /\ eng' = [e1 EXCEPT !.equity_curve =
                                 UpdateAccountSnapshot(<<>>, e1.strategy_contexts,
                                                       StartTime, account, loaded)]
                   /\ log' = IF NeedsInitialize(eng) THEN tried ELSE log
           /\ UNCHANGED <<orderVars, riskVars, ctxOrders>>

\* The one run_backtest call of Spec
RunBacktestStart == RunBacktestCall(1, CandleLists)

\* One turn of the bar loop (lines 439-471).  An exception in the loop over
\* the open orders leaves run_backtest; one in the try block ends the loop.
ProcessBarWith(moves) ==
    /\ run.phase = "replay" /\ ~run.broke /\ run.bar <= Len(run.all_candles)
    /\ \E m \in moves,
          candle \in {run.all_candles[run.bar]} :
       \E ctx \in {IF eng.risk_manager
                   THEN UpdateContext(riskCtx, "ticker" :> (candle.symbol :> candle.close))
                   ELSE riskCtx} :
       \E st1 \in {ProcessOrders(BarState(orders, rules, account, eng.orders,
                                          ctxOrders, log),
                                 eng, ctxOrders, 1, TRUE, candle, run.bar,
                                 ctx, wallDate)} :
       \E oc \in {OnCandle(st1, m, run.bar, ctx, wallDate)} :
       \E st2 \in {ProcessOrders(oc.st, eng, oc.result, 1, FALSE, candle, run.bar,
                                 ctx, wallDate)} :
       \E st \in {IF st1.raised THEN st1 ELSE st2} :
           /\ riskCtx' = ctx
           /\ orders' = st.orders
           /\ rules' = st.rules
           /\ account' = st.account
           /\ ctxOrders' = st.ctxOrders
           /\ log' = st.log
           /\ eng' = [eng EXCEPT !.current_time = candle.timestamp,
                                 !.orders = st.engOrders,
                                 !.equity_curve =
                                     IF st.raised THEN @
                                     ELSE UpdateAccountSnapshot(@, eng.strategy_contexts,
                                              candle.timestamp, st.account,
                                              eng.candles)]
           /\ run' = IF st1.raised THEN [run EXCEPT !.phase = "raised"]
                     ELSE IF st2.raised THEN [run EXCEPT !.broke = TRUE]
                     ELSE [run EXCEPT !.bar = @ + 1]
           /\ UNCHANGED <<call, ncalls, wallDate, chk>>

\* A bar of Spec: the strategy may do anything StrategyMoves lists.
ProcessBar == ProcessBarWith(StrategyMoves(Len(orders)))

\* run_backtest after the bar loop (lines 473-496)
RunBacktestFinish ==
    /\ run.phase = "replay"
    /\ run.broke \/ run.bar > Len(run.all_candles)
    /\ eng' = [eng EXCEPT !.is_running = FALSE]
    /\ run' = [run EXCEPT !.phase = "returned", !.result = "full",
                          !.metrics = PerformanceMetrics(eng.equity_curve)]
    /\ UNCHANGED <<orderVars, riskVars, ctxOrders, log>>

Next ==
    \/ CreateStrategy \/ RegisterStrategy \/ InstallRule \/ RemoveRiskManager
    \/ RunBacktestStart \/ ProcessBar \/ RunBacktestFinish

Spec == Init /\ [][Next]_vars

\* -------------------------------------------------- claims on the backtest run
\* The positions of the log where the risk manager was asked about order oid.
ChecksOf(oid) == {k \in 1..Len(log) : log[k].kind = "check" /\ log[k].oid = oid}

\* The gate of _process_order allowed order oid on bar b.
GateAllowed(oid, b) ==
    \E k \in ChecksOf(oid) :
        log[k].site = "engine" /\ log[k].bar = b /\ log[k].allowed

\* C1: in a backtest with a risk manager installed, no order is filled
\* (Order.fill applied, balances changed) unless RiskManager.check_order
\* returned true for that order earlier in the processing of the same bar.
C1_GateBeforeFill ==
    eng.risk_manager =>
        \A k \in 1..Len(log) :
            log[k].kind = "fill" =>
                \E j \in 1..(k - 1) :
                    /\ log[j].kind = "check" /\ log[j].oid = log[k].oid
                    /\ log[j].bar = log[k].bar /\ log[j].allowed

\* An order left open on the bar it was created on was asked about again and
\* filled on the next bar, with a rule installed.
C1_Witness ==
    /\ eng.risk_manager /\ Len(rules) > 0
    /\ \E k \in 1..Len(log) :
          /\ log[k].kind = "fill" /\ log[k].bar = 2
          /\ GateAllowed(log[k].oid, 2)
          /\ orders[log[k].oid].status = "FILLED"
          /\ account # BacktestAccount(eng.initial_capital)

\* C4 as stated: every order returned by on_candle that the risk gate allows is
\* filled on that same bar: once the bar has been processed the order is
\* FILLED and is in the run's orders list.
C4_AsStated ==
    \A k \in 1..Len(log) :
        (log[k].kind = "returned" /\ GateAllowed(log[k].oid, log[k].bar)) =>
            /\ orders[log[k].oid].status = "FILLED"
            /\ \E i \in 1..Len(eng.orders) : eng.orders[i] = log[k].oid

\* C5 as stated: after create_strategy has returned a strategy id,
\* run_backtest called with that id finds the strategy instance and its
\* context and never returns the empty "strategy not found" result.
C5_AsStated ==
    (run.phase = "returned" /\ eng.strategy_id # 0 /\ run.arg = eng.strategy_id) =>
        run.result # "not_found"

\* C6 as stated: during a run each order the strategy produced is inspected
\* by RiskManager.check_order exactly once over its whole lifetime.
C6_AsStated ==
    \A oid \in 1..Len(orders) : Cardinality(ChecksOf(oid)) = 1

\* The check before check k in the log, 0 when there is none.
PrevCheck(k) ==
    IF \E j \in 1..(k - 1) : log[j].kind = "check"
    THEN CHOOSE j \in 1..(k - 1) :
            /\ log[j].kind = "check"
            /\ \A i \in (j + 1)..(k - 1) : log[i].kind # "check"
    ELSE 0

\* The simulated day of bar b of the run.
BarDate(b) == DateOf(run.all_candles[b].timestamp)

\* C13 as stated: during run_backtest the MaxTradesPerDayRule counter is keyed
\* by the simulated day: it resets when the date of the bar being processed
\* differs from the date of the bar at the previous check, whatever the wall
\* clock says.  So with the trade rule as the only rule, a check on a bar of
\* another day than the previous check's bar finds an empty list and allows.
C13_AsStated ==
    (Len(rules) = 1 /\ rules[1].kind = "trades" /\ rules[1].enabled) =>
        \A k \in 1..Len(log) :
            (/\ log[k].kind = "check"
             /\ PrevCheck(k) # 0
             /\ BarDate(log[PrevCheck(k)].bar) # BarDate(log[k].bar))
                => log[k].allowed

\* The ids held in the sequence s
Held(s) == {s[i] : i \in 1..Len(s)}

\* C15: for each bar, the fill attempt for every order of the strategy that
\* is OPEN when the bar starts is completed before on_candle is invoked for
\* that bar: in what a bar adds to the log, the on_candle entry comes after
\* a fill or a reject of each such order.
C15_OpenOrdersFirst ==
    [][\A k \in (Len(log) + 1)..Len(log') :
          log'[k].kind = "on_candle" =>
              \A oid \in Held(ctxOrders) :
                  orders[oid].status = "OPEN" =>
                      \E j \in (Len(log) + 1)..(k - 1) :
                          /\ log'[j].oid = oid
                          /\ log'[j].kind \in {"fill", "reject"}
                          /\ log'[j].bar = log'[k].bar]_vars

\* Reached: on the second bar an order left OPEN by the first bar was filled
\* and on_candle was called after that, creating a further order.
C15_Witness ==
    \E j, k, c \in 1..Len(log) :
        /\ j < k /\ k < c
        /\ log[j].kind = "fill" /\ log[j].bar = 2
        /\ \E i \in 1..(j - 1) : log[i].oid = log[j].oid /\ log[i].bar = 1
        /\ log[k].kind = "on_candle" /\ log[k].bar = 2
        /\ log[c].kind = "check" /\ log[c].site = "context" /\ log[c].bar = 2

\* C16: if on_candle raises at bar i, no later bar reaches the strategy (the
\* raise is the last thing the run logs and the loop is left), no equity
\* point is recorded for bar i (the curve holds the start point and the
\* points of bars 1..i-1), and run_backtest returns a full result whose
\* curve and metrics are those of the points taken before bar i.
C16_RaiseEndsReplay ==
    \A k \in 1..Len(log) :
        log[k].kind = "raised" =>
            /\ k = Len(log)
            /\ run.phase = "replay" => run.broke /\ run.bar = log[k].bar
            /\ run.phase \in {"replay", "returned"}
            /\ Len(eng.equity_curve) = log[k].bar
            /\ eng.equity_curve[1][1] = StartTime
            /\ \A b \in 1..(log[k].bar - 1) :
                    eng.equity_curve[b + 1][1] = run.all_candles[b].timestamp
            /\ run.phase = "returned" =>
                    /\ run.result = "full"
                    /\ run.metrics = PerformanceMetrics(eng.equity_curve)
                    /\ ~eng.is_running

\* Reached: run_backtest has returned after on_candle raised on the second
\* of two bars, the first bar having filled an order.
C16_Witness ==
    /\ run.phase = "returned" /\ run.result = "full"
    /\ Len(run.all_candles) = 2
    /\ log # <<>> /\ log[Len(log)].kind = "raised" /\ log[Len(log)].bar = 2
    /\ \E j \in 1..Len(log) : log[j].kind = "fill" /\ log[j].bar = 1
    /\ Len(eng.equity_curve) = 2
    /\ run.metrics.final_equity # run.metrics.initial_capital

\* The balance of an asset in an account; an asset without an entry counts
\* as zero.
BalanceOf(acct, asset) == IF asset \in DOMAIN acct THEN Total(acct[asset]) ELSE 0

\* The account as it was when log entry k was made: every entry carries the
\* account of its moment, and only a fill changes the account.
AccountBefore(k) ==
    IF k = 1 THEN BacktestAccount(eng.initial_capital) ELSE log[k - 1].acct

\* C17 as stated: a buy fill of amount a at execution price p with fee f
\* takes a*p + f from the quote asset and adds a to the base asset; a sell
\* fill takes a from the base asset and adds a*p - f to the quote asset; an
\* asset not seen before starts from zero; no other balance changes.
C17_AsStated ==
    \A k \in 1..Len(log) :
        log[k].kind = "fill" =>
            LET o == orders[log[k].oid]
                a == o.amount
                p == o.trades[1][2]
                f == Fee(a, p, eng.commission_rate)
                base == BaseOf(o.symbol)
                quote == QuoteOf(o.symbol)
                pre == AccountBefore(k)
                post == log[k].acct
            IN /\ o.side = "buy" =>
                    /\ BalanceOf(post, quote) = BalanceOf(pre, quote) - (a * p + f)
                    /\ BalanceOf(post, base) = BalanceOf(pre, base) + a
               /\ o.side = "sell" =>
                    /\ BalanceOf(post, base) = BalanceOf(pre, base) - a
                    /\ BalanceOf(post, quote) = BalanceOf(pre, quote) + (a * p - f)
               /\ \A x \in (DOMAIN pre \cup DOMAIN post) \ {base, quote} :
                    BalanceOf(post, x) = BalanceOf(pre, x)

\* C18: after n bars processed without a strategy error the equity curve has
\* exactly n+1 points: one stamped with the start time, then one per bar
\* stamped with that bar's timestamp, in processing order.
C18_OnePointPerBar ==
    (/\ run.phase = "replay" \/ (run.phase = "returned" /\ run.result = "full")
     /\ ~run.broke) =>
        /\ Len(eng.equity_curve) = run.bar
        /\ eng.equity_curve[1][1] = StartTime
        /\ \A b \in 1..(run.bar - 1) :
                eng.equity_curve[b + 1][1] = run.all_candles[b].timestamp

\* Reached: a run over two bars has returned without a strategy error, with
\* three points on the curve, the first bar having filled an order.
C18_Witness ==
    /\ run.phase = "returned" /\ run.result = "full" /\ ~run.broke
    /\ Len(run.all_candles) = 2 /\ run.bar = 3
    /\ Len(eng.equity_curve) = 3
    /\ eng.equity_curve[2][2] # eng.equity_curve[1][2]
    /\ \E k \in 1..Len(log) : log[k].kind = "fill" /\ log[k].bar = 1

\* C21: StrategyContext.create_order returns no order when the risk manager
\* denies it, and the denied order is never added to the context's order
\* map, so the engine never attempts to fill it: the denial is the only
\* thing the log holds about the order, which stays PENDING.
C21_DeniedNotKept ==
    \A k \in 1..Len(log) :
        (log[k].kind = "check" /\ log[k].site = "context" /\ ~log[k].allowed) =>
            /\ log[k].oid \notin Held(ctxOrders)
            /\ \A j \in 1..Len(log) : log[j].oid = log[k].oid => j = k
            /\ orders[log[k].oid].status = "PENDING"
            /\ \A i \in 1..Len(eng.orders) : eng.orders[i] # log[k].oid

\* Reached: an order was denied inside create_order on the first bar and the
\* run went on over a second bar and returned.
C21_Witness ==
    /\ run.phase = "returned" /\ run.result = "full" /\ run.bar = 3
    /\ \E k \in 1..Len(log) :
          /\ log[k].kind = "check" /\ log[k].site = "context"
          /\ ~log[k].allowed /\ log[k].bar = 1
    /\ \E k \in 1..Len(log) : log[k].kind = "fill" /\ log[k].bar = 2

\* C33: every order in the orders list of the run is FILLED and is in the
\* list exactly once; the list holds exactly the orders the engine filled,
\* so an order that was rejected or never filled is not in it and the
\* length of the list (total_trades) counts each filled order once.
C33_ListedOnceFilled ==
    /\ \A i \in 1..Len(eng.orders) :
          /\ orders[eng.orders[i]].status = "FILLED"
          /\ \A j \in 1..Len(eng.orders) : eng.orders[j] = eng.orders[i] => j = i
    /\ \A oid \in DOMAIN orders :
          (\E i \in 1..Len(eng.orders) : eng.orders[i] = oid)
              <=> (\E k \in 1..Len(log) : log[k].kind = "fill" /\ log[k].oid = oid)
    /\ Len(eng.orders) = Cardinality({oid \in DOMAIN orders : orders[oid].status = "FILLED"})

\* Reached: a finished run whose list holds the one order that was filled
\* and not the other order the strategy returned, which was never filled.
C33_Witness ==
    /\ run.phase = "returned"
    /\ Len(eng.orders) = 1
    /\ orders[eng.orders[1]].status = "FILLED"
    /\ \E k \in 1..Len(log) :
          /\ log[k].kind = "returned" /\ log[k].oid # eng.orders[1]
          /\ orders[log[k].oid].status # "FILLED"

\* The closes of the bars of symbol that the replay has processed so far.
ProcessedCloses(symbol) ==
    {run.all_candles[j].close :
        j \in {i \in 1..(run.bar - 1) : run.all_candles[i].symbol = symbol}}

\* C34 as stated: each equity-curve point values every non-quote holding at
\* a price available at that point's timestamp, the close of a bar already
\* processed for that asset, never at the close of a later bar.  Checked on
\* the point just recorded, which is computed from the account as it is.
C34_AsStated ==
    (/\ run.phase = "replay" /\ ~run.broke /\ run.bar > 1
     /\ "BTC" \in DOMAIN account /\ Total(account["BTC"]) # 0) =>
        \E price \in ProcessedCloses("BTC/USDT") :
            eng.equity_curve[Len(eng.equity_curve)][2]
                = Total(account["USDT"]) + Total(account["BTC"]) * price

\* C35 as stated: after any sequence of simulated fills no asset's balance
\* is negative: a buy is never executed for more quote currency than the
\* account holds and a sell never for more of the base asset than it holds.
C35_AsStated ==
    /\ \A a \in DOMAIN account : Total(account[a]) >= 0
    /\ \A k \in 1..Len(log) :
          log[k].kind = "fill" => \A a \in DOMAIN log[k].acct : Total(log[k].acct[a]) >= 0

\* C9: an order denied by the risk gate of _process_order is marked REJECTED
\* there and then with the balances as they were, is never filled afterwards
\* and is not in the run's orders list.
C9_DeniedIsRejected ==
    \A k \in 1..Len(log) :
        (log[k].kind = "check" /\ log[k].site = "engine" /\ ~log[k].allowed) =>
            /\ orders[log[k].oid].status = "REJECTED"
            /\ orders[log[k].oid].filled_amount = 0
            /\ k < Len(log)
            /\ log[k + 1].kind = "reject" /\ log[k + 1].oid = log[k].oid
            /\ log[k + 1].acct = log[k].acct
            /\ \A j \in (k + 1)..Len(log) :
                  ~(log[j].kind = "fill" /\ log[j].oid = log[k].oid)
            /\ \A i \in 1..Len(eng.orders) : eng.orders[i] # log[k].oid
            /\ (k = Len(log) - 1) => account = log[k].acct

\* The gate denied an order the context had let through, and the run went on
\* to its end.
C9_Witness ==
    /\ run.phase = "returned" /\ run.result = "full"
    /\ \E k \in 1..Len(log) :
          /\ log[k].kind = "check" /\ log[k].site = "engine" /\ ~log[k].allowed
          /\ orders[log[k].oid].status = "REJECTED"
          /\ \E j \in 1..(k - 1) :
                log[j].kind = "check" /\ log[j].site = "context"
                /\ log[j].oid = log[k].oid /\ log[j].allowed

\* ------------------------------------ SpecBars: the order bars are delivered
\* An engine whose strategy is configured with two symbols and two
\* timeframes, in either order, with candles loaded for each pair
\* (load_candles), and run_backtest called up to MaxRuns times.  Only the
\* delivery of the bars is followed: the strategy creates no order.  The log
\* holds a "run_backtest" entry for each call and an "on_candle" entry for
\* each candle handed to the strategy.
MaxStream == 2      \* most candles held for one symbol and timeframe
MaxRuns == 2        \* run_backtest calls made

Times == {1, 2}
Timeframes == {"1h", "1d"}
SymbolOrders == {<<"BTC/USDT", "ETH/USDT">>, <<"ETH/USDT", "BTC/USDT">>}
TimeframeOrders == {<<"1h", "1d">>, <<"1d", "1h">>}
\* The data source has candles for these; its list for ETH/USDT 1d is empty.
SourcePairs == {<<"BTC/USDT", "1h">>, <<"BTC/USDT", "1d">>, <<"ETH/USDT", "1h">>}

\* The timestamps of one candle list as the data source returns it.
TimeLists ==
    UNION {{f \in [1..n -> Times] : \A k \in 1..(n - 1) : f[k] <= f[k + 1]}
           : n \in 0..MaxStream}

\* The candle list of a symbol and timeframe; pos tells the Candle objects
\* of one list apart (their place in the data source's answer).
StreamOf(symbol, timeframe, ts) ==
    [k \in 1..Len(ts) |-> [symbol |-> symbol, timeframe |-> timeframe,
                           timestamp |-> ts[k], close |-> 10000, pos |-> k]]

InitBars ==
    /\ orders = <<>> /\ call = NoCall /\ ncalls = 0
    /\ rules = <<>> /\ riskCtx = <<>> /\ wallDate = 0
    /\ account = BacktestAccount(InitialCapital)
    /\ chk = NoCheck
    /\ ctxOrders = <<>> /\ run = NoRun /\ log = <<>>
    /\ \E syms \in SymbolOrders, tfs \in TimeframeOrders,
          d \in [SourcePairs -> TimeLists] :
        eng = [NewEngine EXCEPT
                  !.strategy_id = 1, !.strategy_instances = {1},
                  !.strategy_contexts = {1}, !.has_account = TRUE,
                  !.is_initialized = TRUE,
                  !.config = [symbols |-> syms, timeframes |-> tfs],
                  !.candles = [sy \in Symbols |->
                                  [tf \in Timeframes |->
                                      IF <<sy, tf>> \in SourcePairs
                                      THEN StreamOf(sy, tf, d[<<sy, tf>>])
                                      ELSE <<>>]]]

\* The run_backtest calls made so far
RunsMade == Cardinality({i \in 1..Len(log) : log[i].kind = "run_backtest"})

\* run_backtest up to the bar loop: every list is loaded already
BarsStart ==
    /\ run.phase \in {"idle", "returned"}
    /\ RunsMade < MaxRuns
    /\ run' = [run EXCEPT !.phase = "replay", !.arg = 1,
                          !.all_candles = AllCandles(eng.config, eng.candles),
                          !.bar = 1]
    /\ eng' = [eng EXCEPT !.is_running = TRUE, !.current_time = StartTime]
    /\ log' = Append(log, [kind |-> "run_backtest"])
    /\ UNCHANGED <<orderVars, riskVars, ctxOrders>>

\* One turn of the bar loop with a strategy that returns an empty result
BarsDeliver ==
    /\ run.phase = "replay" /\ run.bar <= Len(run.all_candles)
    /\ \E candle \in {run.all_candles[run.bar]} :
        /\ eng' = [eng EXCEPT !.current_time = candle.timestamp]
        /\ log' = Append(log, [kind |-> "on_candle", candle |-> candle,
                               now |-> candle.timestamp])
    /\ run' = [run EXCEPT !.bar = @ + 1]
    /\ UNCHANGED <<orderVars, riskVars, ctxOrders>>

BarsFinish ==
    /\ run.phase = "replay" /\ run.bar > Len(run.all_candles)
    /\ eng' = [eng EXCEPT !.is_running = FALSE]
    /\ run' = [run EXCEPT !.phase = "returned", !.result = "full",
                          !.metrics = PerformanceMetrics(eng.equity_curve)]
    /\ UNCHANGED <<orderVars, riskVars, ctxOrders, log>>

NextBars == BarsStart \/ BarsDeliver \/ BarsFinish

SpecBars == InitBars /\ [][NextBars]_vars

\* The place of x in the sequence s
PlaceIn(s, x) == CHOOSE i \in 1..Len(s) : s[i] = x

\* The log entries i < j are deliveries of one run_backtest call.
SameRun(i, j) ==
    /\ log[i].kind = "on_candle" /\ log[j].kind = "on_candle"
    /\ \A k \in i..j : log[k].kind # "run_backtest"

\* The entry of the run_backtest call that delivery i belongs to
RunOf(i) == CHOOSE k \in 1..i :
    log[k].kind = "run_backtest" /\ \A m \in (k + 1)..i : log[m].kind # "run_backtest"

\* Candle c comes before candle d in the documented order: by timestamp,
\* then by configured symbol, then by configured timeframe, then by place in
\* the source.
ComesBefore(c, d) ==
    LET cs == PlaceIn(eng.config.symbols, c.symbol)
        ds == PlaceIn(eng.config.symbols, d.symbol)
        ct == PlaceIn(eng.config.timeframes, c.timeframe)
        dt == PlaceIn(eng.config.timeframes, d.timeframe)
    IN \/ c.timestamp < d.timestamp
       \/ c.timestamp = d.timestamp /\ cs < ds
       \/ c.timestamp = d.timestamp /\ cs = ds /\ ct < dt
       \/ c.timestamp = d.timestamp /\ cs = ds /\ ct = dt /\ c.pos < d.pos

\* C14: within a run the bars reach on_candle in non-decreasing timestamp
\* order, bars of one timestamp in configured symbol order, then configured
\* timeframe order, then source order; and a later run over the same data
\* delivers the same candle at the same place as an earlier one.
C14_BarOrder ==
    /\ \A i \in 1..Len(log), j \in 1..Len(log) :
        (i < j /\ SameRun(i, j)) => ComesBefore(log[i].candle, log[j].candle)
    /\ \A i \in 1..Len(log), j \in 1..Len(log) :
        (/\ log[i].kind = "on_candle" /\ log[j].kind = "on_candle"
         /\ i - RunOf(i) = j - RunOf(j))
            => log[i].candle = log[j].candle

\* Reached: a second run has delivered a bar after a first run that delivered
\* two bars of one timestamp from different symbols, two from different
\* timeframes of one symbol, two from one list, and a later bar collected
\* before an earlier one.
C14_Witness ==
    /\ RunsMade = 2
    /\ log[Len(log)].kind = "on_candle"
    /\ \E i, j \in 1..Len(log) :
        /\ i < j /\ SameRun(i, j)
        /\ log[i].candle.timestamp = log[j].candle.timestamp
        /\ log[i].candle.symbol # log[j].candle.symbol
    /\ \E i, j \in 1..Len(log) :
        /\ i < j /\ SameRun(i, j)
        /\ log[i].candle.timestamp = log[j].candle.timestamp
        /\ log[i].candle.symbol = log[j].candle.symbol
        /\ log[i].candle.timeframe # log[j].candle.timeframe
    /\ \E i, j \in 1..Len(log) :
        /\ i < j /\ SameRun(i, j)
        /\ log[i].candle.timestamp = log[j].candle.timestamp
        /\ log[i].candle.symbol = log[j].candle.symbol
        /\ log[i].candle.timeframe = log[j].candle.timeframe
    /\ \E i, j \in 1..Len(log) :
        /\ i < j /\ SameRun(i, j)
        /\ log[i].candle.timestamp < log[j].candle.timestamp
        /\ PlaceIn(eng.config.symbols, log[i].candle.symbol)
            > PlaceIn(eng.config.symbols, log[j].candle.symbol)

\* --------------------------- SpecRuns: one engine, run_backtest called again
\* The caller may set the initial capital at any time between runs, creates
\* and registers one strategy and calls run_backtest up to MaxRuns times on
\* the same engine.  No rule is installed.  The data source has up to
\* MaxBars hourly candles of one close, and the strategy either does
\* nothing on a bar or creates a market buy of 1, submits it and returns it.
ExampleCapital == 10000

Capitals == {InitialCapital, ExampleCapital}

RunLists == {cs \in CandleLists :
                \A k \in 1..Len(cs) : cs[k].close = 10000 /\ cs[k].timestamp = StartTime + k}

SimpleMoves(created) ==
    {Move("none", "buy", 0, FALSE, FALSE)}
    \cup {Move("create", "buy", 1, TRUE, TRUE) : x \in (IF created < MaxOrders THEN {1} ELSE {})}

\* BacktestEngine.set_initial_capital
SetInitialCapital ==
    \E capital \in Capitals :
        /\ run.phase \in {"idle", "returned"}
        /\ eng.initial_capital # capital
        /\ eng' = [eng EXCEPT !.initial_capital = capital]
        /\ UNCHANGED <<orderVars, riskVars, ctxOrders, run, log>>

RunBacktestAgain == RunBacktestCall(MaxRuns, RunLists)

RunsProcessBar == ProcessBarWith(SimpleMoves(Len(orders)))

NextRuns ==
    \/ SetInitialCapital \/ CreateStrategy \/ RegisterStrategy
    \/ RunBacktestAgain \/ RunsProcessBar \/ RunBacktestFinish

SpecRuns == Init /\ [][NextRuns]_vars

\* C19 as stated: the first equity-curve point of a run equals the initial
\* capital configured with set_initial_capital; when the run starts the
\* account holds that much USDT and nothing else.
C19_AsStated ==
    /\ (run.phase = "replay" \/ (run.phase = "returned" /\ run.result = "full")) =>
            eng.equity_curve[1] = <<StartTime, eng.initial_capital>>
    /\ (run.phase = "replay" /\ run.bar = 1) =>
            account = BacktestAccount(eng.initial_capital)

\* The calls of initialize() in the log
InitializeCalls == {k \in 1..Len(log) : log[k].kind = "initialize"}

\* No bar reaches on_candle before an initialize() that succeeded.
InitializedBeforeBars ==
    \A k \in 1..Len(log) :
        log[k].kind = "on_candle" =>
            \E j \in InitializeCalls : j < k /\ log[j].allowed

\* A run whose initialize() failed has returned the empty result and
\* delivered no bar: the failed call is the last thing in the log.
FailedInitializeEndsRun ==
    (run.phase = "returned" /\ run.result = "init_failed") =>
        /\ log # <<>>
        /\ log[Len(log)].kind = "initialize" /\ ~log[Len(log)].allowed
        /\ ~eng.is_running

\* C20 as stated: initialize() is called before the first on_candle and at
\* most once per strategy instance across repeated runs; if it fails, no bar
\* is delivered and an empty result is returned.
C20_AsStated ==
    /\ InitializedBeforeBars
    /\ Cardinality(InitializeCalls) <= 1
    /\ FailedInitializeEndsRun

\* C20, amended: initialize() is called before the first on_candle and never
\* again after a call that succeeded (a call that failed is repeated by the
\* next run); if it fails, no bar is delivered and an empty result is
\* returned.
C20_InitializeUntilDone ==
    /\ InitializedBeforeBars
    /\ \A j \in InitializeCalls, k \in InitializeCalls : j < k => ~log[j].allowed
    /\ FailedInitializeEndsRun

\* Reached: a first run ended by a failing initialize(), and a second run
\* that called initialize() again, with success, and delivered a bar.
C20_Witness ==
    /\ run.calls = 2
    /\ \E i, j, k \in 1..Len(log) :
        /\ i < j /\ j < k
        /\ log[i].kind = "initialize" /\ ~log[i].allowed
        /\ log[j].kind = "initialize" /\ log[j].allowed
        /\ log[k].kind = "on_candle"

\* ------------------------- SpecFloat: Order.fill in floating-point arithmetic
\* The amounts of an Order are Python floats, and Order.fill adds to
\* filled_amount and subtracts from remaining_amount with a rounding after
\* each operation.  Here the float format is binary with a significand of
\* three bits instead of fifty-three, rounding to nearest, ties to even, as
\* binary64 does; the values are counted in units of the smallest one.
Significands == 4..7
Exponents == 0..1

\* The non-negative values the format holds: the small ones exactly, the
\* larger ones with a three-bit significand.
Floats == (0..7) \cup {m * (2 ^ e) : m \in Significands, e \in Exponents}

\* The distance between v and w
Distance(v, w) == IF v < w THEN w - v ELSE v - w

\* The values of the format nearest to the exact result v
Nearest(v) == {r \in Floats : \A q \in Floats : Distance(r, v) <= Distance(q, v)}

\* Rounding of an exact result: the nearest value; of two equally near
\* ones, the one whose significand is even (an even multiple of their
\* distance).
RoundFloat(v) ==
    LET near == Nearest(v)
    IN IF Cardinality(near) = 1 THEN CHOOSE r \in near : TRUE
       ELSE CHOOSE r \in near :
               \E q \in near : q # r /\ (r \div Distance(q, r)) % 2 = 0

\* float + float and float - float
FloatAdd(x, y) == RoundFloat(x + y)
FloatSub(x, y) == RoundFloat(x - y)

\* Order.fill with float amounts (the prices stay exact)
OrderFillFloat(o, amount, price) ==
    IF IsClosed(o) THEN Raise(o)
    ELSE IF amount <= 0 THEN Raise(o)
    ELSE IF amount > o.remaining_amount THEN Raise(o)
    ELSE LET filled == FloatAdd(o.filled_amount, amount)
         IN Return([o EXCEPT !.filled_amount = filled,
                             !.remaining_amount = FloatSub(@, amount),
                             !.average_price = NewAverage(@, filled, amount, price),
                             !.trades = Append(@, <<amount, price>>),
                             !.status = IF filled >= o.amount THEN "FILLED"
                                        ELSE "PARTIALLY_FILLED",
                             !.closed_at = (filled >= o.amount)])

\* An order for a positive amount the format holds
InitFloat ==
    /\ \E a \in Floats \ {0}, s \in Sides : orders = <<NewOrder("BTC/USDT", a, s, 0)>>
    /\ call = NoCall
    /\ ncalls = 0
    /\ rules = <<>>
    /\ riskCtx = <<>>
    /\ wallDate = 0
    /\ account = <<>>
    /\ chk = NoCheck
    /\ EngineUnused

FloatFill == \E a \in Floats \ {0} :
                Apply("fill", a, OrderFillFloat(orders[1], a, 100))

NextFloat == CallSubmit \/ FloatFill \/ CallCancel

SpecFloat == InitFloat /\ [][NextFloat]_vars

\* C22 as stated: in every reachable Order state, status is FILLED if and
\* only if remaining_amount is 0 after at least one fill, and status is
\* PARTIALLY_FILLED only if 0 < filled_amount < requested amount.
C22_AsStated ==
    \A i \in DOMAIN orders :
        /\ orders[i].status = "FILLED"
            <=> (orders[i].remaining_amount = 0 /\ orders[i].trades # <<>>)
        /\ orders[i].status = "PARTIALLY_FILLED" =>
            (0 < orders[i].filled_amount /\ orders[i].filled_amount < orders[i].amount)

\* --------------------- SpecRules: one risk rule asked by a caller, and the
\* account's equity.  Amounts are whole units at a price of 1000, so that an
\* order of 9 has a notional of 9,000.
MaxRuleChecks == 1

\* The rule under test: a position rule with one or all of its limits, or
\* the drawdown rule of the example.
RuleSetups ==
    {PositionSizeRule(11, 0, 0), PositionSizeRule(0, 10000, 0),
     PositionSizeRule(0, 0, 20), PositionSizeRule(11, 10000, 20),
     MaxDrawdownRule(10)}

\* Accounts worth 50,000 USDT at the prices below, and an empty one.
RuleAccounts ==
    {"USDT" :> [free |-> 50000, locked |-> 0],
     ("USDT" :> [free |-> 49000, locked |-> 0]) @@ ("BTC" :> [free |-> 1, locked |-> 0]),
     ("USDT" :> [free |-> 49990, locked |-> 0]) @@ ("ETH" :> [free |-> 1, locked |-> 0]),
     <<>>}

\* Price maps {symbol: price}
PriceMaps ==
    {<<>>, "BTC/USDT" :> 1000, "ETH/USDT" :> 10,
     ("BTC/USDT" :> 1000) @@ ("ETH/USDT" :> 10)}

\* Arguments of update_context: a ticker or a drawdown
RuleContexts ==
    {"ticker" :> pm : pm \in PriceMaps \ {<<>>}}
    \cup {"drawdown" :> d : d \in {5, 10, 15}}

RuleAmounts == {9, 10, 11, 12}

InitRules ==
    /\ orders = <<>>
    /\ call = NoCall
    /\ ncalls = 0
    /\ \E r \in RuleSetups : rules = <<r>>
    /\ riskCtx = <<>>
    /\ wallDate = 0
    /\ account \in RuleAccounts
    /\ chk = NoCheck
    /\ EngineUnused

\* RiskManager.update_context
RulesUpdateContext ==
    \E m \in RuleContexts :
        /\ riskCtx' = UpdateContext(riskCtx, m)
        /\ UNCHANGED <<orderVars, rules, wallDate, account, chk, engVars>>

\* RiskManager.check_order on a new order, a limit order at 1000 or a
\* market order (no price); the call keeps the context it was made in.
RulesCheckNew ==
    \E a \in RuleAmounts, p \in {0, 1000} :
        \E c \in {CheckOrder(rules, Len(orders) + 1,
                             NewOrder("BTC/USDT", a, "buy", p),
                             account, riskCtx, wallDate)} :
            /\ chk.n < MaxRuleChecks
            /\ orders' = Append(orders, NewOrder("BTC/USDT", a, "buy", p))
            /\ rules' = c.rules
            /\ chk' = Checked(Len(orders) + 1, "caller", c)
            /\ call' = [op |-> "check_order", id |-> Len(orders) + 1,
                        ok |-> c.result, amount |-> a,
                        before |-> NewOrder("BTC/USDT", a, "buy", p),
                        context |-> riskCtx]
            /\ UNCHANGED <<ncalls, riskCtx, wallDate, account, engVars>>

\* Account.get_equity("USDT", prices)
RulesGetEquity ==
    \E pm \in PriceMaps :
        /\ call' = [op |-> "get_equity", id |-> 0, ok |-> TRUE,
                    amount |-> GetEquity(account, QuoteAsset, pm),
                    before |-> NoCall.before, context |-> pm]
        /\ UNCHANGED <<orders, ncalls, riskVars, engVars>>

NextRules == RulesUpdateContext \/ RulesCheckNew \/ RulesGetEquity

SpecRules == InitRules /\ [][NextRules]_vars

\* Equity as the specification defines it: the quote-asset total plus every
\* other balance converted at the supplied prices, zero when the price of a
\* held asset is missing.
HeldAssets(acct, quote) == {a \in DOMAIN acct \ {quote} : Total(acct[a]) # 0}

RECURSIVE ConvertedSum(_, _, _, _)
ConvertedSum(assets, acct, quote, prices) ==
    IF assets = {} THEN 0
    ELSE LET a == CHOOSE x \in assets : TRUE
         IN Total(acct[a]) * prices[SymbolOf(a, quote)]
            + ConvertedSum(assets \ {a}, acct, quote, prices)

StatedEquity(acct, quote, prices) ==
    IF \E a \in HeldAssets(acct, quote) : SymbolOf(a, quote) \notin DOMAIN prices
    THEN 0
    ELSE (IF quote \in DOMAIN acct THEN Total(acct[quote]) ELSE 0)
         + ConvertedSum(HeldAssets(acct, quote), acct, quote, prices)

\* The price the position rule works with: the order's, else the last price
\* of the context, else none (0).
RulePrice(o, ctx) ==
    IF o.price # 0 THEN o.price
    ELSE IF "ticker" \in DOMAIN ctx /\ o.symbol \in DOMAIN ctx["ticker"]
         THEN ctx["ticker"][o.symbol]
    ELSE 0

\* C27 as stated: PositionSizeRule denies an order if and only if the amount
\* exceeds the configured max_position_amount, or amount * price exceeds the
\* configured max_position_value, or amount * price / equity * 100 exceeds
\* the configured max_position_percentage; a limit that is not configured
\* never denies.  An account worth 50,000 under a limit of 20 percent is
\* allowed a notional of 9,000 and denied one of 11,000.
C27_AsStated ==
    (call.op = "check_order" /\ rules[1].kind = "position") =>
        LET r == rules[1]
            o == call.before
            price == RulePrice(o, call.context)
            value == o.amount * price
            equity == StatedEquity(account, QuoteAsset, TickerPrices(call.context))
        IN ~call.ok <=>
              \/ r.max_position_amount # 0 /\ o.amount > r.max_position_amount
              \/ /\ price # 0
                 /\ \/ r.max_position_value # 0 /\ value > r.max_position_value
                    \/ /\ r.max_position_percentage # 0
                       /\ value * 100 > r.max_position_percentage * equity

\* C28: an order without a price, checked in a context that holds no last
\* price for its symbol, is allowed by PositionSizeRule whatever
\* max_position_value and max_position_percentage are, provided
\* max_position_amount is not exceeded.
C28_NoPriceAllows ==
    (/\ call.op = "check_order" /\ rules[1].kind = "position"
     /\ call.before.price = 0
     /\ RulePrice(call.before, call.context) = 0) =>
        (call.ok <=> ~(/\ rules[1].max_position_amount # 0
                       /\ call.before.amount > rules[1].max_position_amount))

\* Reached: a market order of 11 units was allowed under a value limit and a
\* percentage limit that its notional at the price of other orders would
\* break, in a context whose ticker holds another symbol only, for an
\* account whose equity is zero.
C28_Witness ==
    /\ call.op = "check_order" /\ call.ok
    /\ rules[1] = PositionSizeRule(11, 10000, 20)
    /\ call.before.price = 0 /\ call.before.amount = 11
    /\ call.context = "ticker" :> ("ETH/USDT" :> 10)
    /\ account = <<>>

\* C29: MaxDrawdownRule denies an order if and only if the context holds a
\* drawdown value strictly greater than max_drawdown_percentage; a drawdown
\* equal to the limit, or a context without a drawdown value, allows it.
C29_DrawdownStrict ==
    (call.op = "check_order" /\ rules[1].kind = "drawdown") =>
        /\ ~call.ok <=> /\ "drawdown" \in DOMAIN call.context
                        /\ call.context["drawdown"] > rules[1].max_drawdown_percentage
        /\ "drawdown" \notin DOMAIN call.context => call.ok
        /\ ("drawdown" \in DOMAIN call.context
            /\ call.context["drawdown"] = rules[1].max_drawdown_percentage) => call.ok

\* Reached: an order was allowed at a drawdown equal to the limit.
C29_Witness ==
    /\ call.op = "check_order" /\ call.ok
    /\ rules[1].kind = "drawdown"
    /\ "drawdown" \in DOMAIN call.context
    /\ call.context["drawdown"] = rules[1].max_drawdown_percentage

\* C30 as stated: get_equity returns zero whenever the price of a held
\* non-quote asset is missing from the price map, and otherwise the
\* quote-asset total plus the sum of balance.total * price over the other
\* assets.
C30_AsStated ==
    call.op = "get_equity" =>
        call.amount = StatedEquity(account, QuoteAsset, call.context)

\* C31: update_context(m) leaves every context key that is not a key of m
\* present with its value unchanged and sets every key of m to its new
\* value; no sequence of update_context calls ever removes a key.
C31_UpdateMerges ==
    [][/\ DOMAIN riskCtx \subseteq DOMAIN riskCtx'
       /\ riskCtx' # riskCtx =>
            \E m \in RuleContexts :
                /\ DOMAIN riskCtx' = DOMAIN riskCtx \cup DOMAIN m
                /\ \A k \in DOMAIN m : riskCtx'[k] = m[k]
                /\ \A k \in DOMAIN riskCtx \ DOMAIN m : riskCtx'[k] = riskCtx[k]
    ]_vars

\* Reached: a context that was given a drawdown and a ticker in separate
\* calls holds both.
C31_Witness ==
    /\ "drawdown" \in DOMAIN riskCtx /\ riskCtx["drawdown"] = 15
    /\ "ticker" \in DOMAIN riskCtx
    /\ riskCtx["ticker"] = "ETH/USDT" :> 10

\* ------------- SpecMetrics: the metrics of an equity curve that grows point
\* by point (equities are positive)
MaxPoints == 4
EquityLevels == {90, 100, 110, 120}

InitMetrics ==
    /\ orders = <<>>
    /\ call = NoCall
    /\ ncalls = 0
    /\ rules = <<>>
    /\ riskCtx = <<>>
    /\ wallDate = 0
    /\ account = <<>>
    /\ chk = NoCheck
    /\ EngineUnused

\* One more point on the equity curve (_update_account_snapshot, line 371)
MetricsSnapshot ==
    \E e \in EquityLevels :
        /\ Len(eng.equity_curve) < MaxPoints
        /\ eng' = [eng EXCEPT !.equity_curve = Append(@, <<Len(@), e>>)]
        /\ UNCHANGED <<orderVars, riskVars, ctxOrders, run, log>>

\* get_performance_metrics(): the call keeps the curve it was made on.
MetricsCalculate ==
    /\ call' = [op |-> "get_performance_metrics", id |-> 0, ok |-> TRUE,
                amount |-> 0, before |-> NoCall.before,
                curve |-> eng.equity_curve,
                metrics |-> EquityMetrics(eng.equity_curve)]
    /\ UNCHANGED <<orders, ncalls, riskVars, engVars>>

NextMetrics == MetricsSnapshot \/ MetricsCalculate

SpecMetrics == InitMetrics /\ [][NextMetrics]_vars

\* The largest equity among E_0..E_i
RECURSIVE RunningPeak(_, _)
RunningPeak(values, i) ==
    IF i = 1 THEN values[1]
    ELSE IF values[i] > RunningPeak(values, i - 1) THEN values[i]
    ELSE RunningPeak(values, i - 1)

\* (running_peak - E_i) / running_peak
DrawdownAt(values, i) ==
    Norm(<<RunningPeak(values, i) - values[i], RunningPeak(values, i)>>)

\* C32: max_drawdown is the maximum over the equity series of
\* (running_peak - E_i) / running_peak, running_peak being the largest equity
\* among E_0..E_i; it is 0 for a flat or non-decreasing series and 0.25 for
\* the series [100, 120, 90, 110].
C32_MaxDrawdown ==
    (call.op = "get_performance_metrics" /\ call.curve # <<>>) =>
        LET values == EquityValues(call.curve)
            dd == call.metrics.max_drawdown
        IN /\ \E i \in 1..Len(values) : dd = DrawdownAt(values, i)
           /\ \A i \in 1..Len(values) :
                 dd[1] * DrawdownAt(values, i)[2] >= DrawdownAt(values, i)[1] * dd[2]
           /\ (\A i \in 2..Len(values) : values[i] >= values[i - 1]) => dd = <<0, 1>>
           /\ values = <<100, 120, 90, 110>> => dd = <<1, 4>>

\* Reached: the metrics of the series [100, 120, 90, 110], a max_drawdown of
\* one quarter.
C32_Witness ==
    /\ call.op = "get_performance_metrics"
    /\ EquityValues(call.curve) = <<100, 120, 90, 110>>
    /\ call.metrics.max_drawdown = <<1, 4>>

\* -------- SpecTicker: the risk context through the bars of two symbols.  An
\* engine with a risk manager whose strategy is configured with both symbols
\* and the 1h timeframe; as in SpecBars the strategy creates no order.
InitTicker ==
    /\ orders = <<>> /\ call = NoCall /\ ncalls = 0
    /\ rules = <<PositionSizeRule(0, 0, 20)>> /\ riskCtx = <<>> /\ wallDate = 0
    /\ account = BacktestAccount(InitialCapital)
    /\ chk = NoCheck
    /\ ctxOrders = <<>> /\ run = NoRun /\ log = <<>>
    /\ \E syms \in SymbolOrders, d \in [Symbols -> TimeLists] :
        eng = [NewEngine EXCEPT
                  !.strategy_id = 1, !.strategy_instances = {1},
                  !.strategy_contexts = {1}, !.has_account = TRUE,
                  !.is_initialized = TRUE, !.risk_manager = TRUE,
                  !.config = [symbols |-> syms, timeframes |-> <<"1h">>],
                  !.candles = [sy \in Symbols |->
                                  [tf \in {"1h"} |-> StreamOf(sy, tf, d[sy])]]]

\* One turn of the bar loop (lines 439-468) with a strategy that returns an
\* empty result: the clock, the ticker of the risk context, on_candle.
TickerDeliver ==
    /\ run.phase = "replay" /\ run.bar <= Len(run.all_candles)
    /\ \E candle \in {run.all_candles[run.bar]} :
        /\ eng' = [eng EXCEPT !.current_time = candle.timestamp]
        /\ riskCtx' = IF eng.risk_manager
                      THEN UpdateContext(riskCtx,
                                         "ticker" :> (candle.symbol :> candle.close))
                      ELSE riskCtx
        /\ log' = Append(log, [kind |-> "on_candle", candle |-> candle,
                               now |-> candle.timestamp])
    /\ run' = [run EXCEPT !.bar = @ + 1]
    /\ UNCHANGED <<orderVars, rules, wallDate, account, chk, ctxOrders>>

NextTicker == BarsStart \/ TickerDeliver \/ BarsFinish

SpecTicker == InitTicker /\ [][NextTicker]_vars

\* The symbols of the bars the current run has processed
SymbolsSeen == {run.all_candles[i].symbol : i \in 1..(run.bar - 1)}

\* C36 as stated: in a backtest over several symbols, after a bar of one
\* symbol has been processed the risk context still holds the last price
\* recorded earlier for another, so that every symbol already seen has a
\* last price in the context.
C36_AsStated ==
    run.phase = "replay" =>
        \A sy \in SymbolsSeen : sy \in DOMAIN TickerPrices(riskCtx)

\* ----------- SpecErrors: one run with a strategy that may also ask for an
\* order of amount 0 (OrderParams validates no amount)
ErrorMoves(created) ==
    {Move("raise", "buy", 0, FALSE, FALSE), Move("none", "buy", 0, FALSE, FALSE)}
    \cup {Move("create", "buy", a, sub, ret) :
             a \in (IF created < MaxOrders THEN {0, 1} ELSE {}),
             sub \in BOOLEAN, ret \in BOOLEAN}

ErrorsStart == RunBacktestCall(1, RunLists)

ErrorsProcessBar == ProcessBarWith(ErrorMoves(Len(orders)))

NextErrors ==
    \/ CreateStrategy \/ RegisterStrategy
    \/ ErrorsStart \/ ErrorsProcessBar \/ RunBacktestFinish

SpecErrors == Init /\ [][NextErrors]_vars

\* C37 as stated: an error raised while a bar is processed, in the fill
\* phase for the orders already open as well as in on_candle and in the
\* processing of its result, is contained by the engine: once the replay
\* has started run_backtest returns normally, with is_running false.
C37_AsStated ==
    /\ run.phase # "raised"
    /\ run.phase = "returned" => ~eng.is_running

\* ------ SpecCancel: StrategyContext.cancel_order.  Order 1 is the Order the
\* context may hold (ctxOrders); the order repository resolves its id to the
\* last object of orders, which is the same object when orders has one
\* element and a separate copy when it has two.  Id 2 is known to nobody.
CancelIds == {1, 2}

\* OrderRepository.find_by_id: the place of the object, 0 for None
FindById(os, id) == IF id = 1 THEN Len(os) ELSE 0

InitCancel ==
    /\ \E a \in {1, MaxAmount}, copied \in BOOLEAN :
          orders = IF copied
                   THEN <<NewOrder("BTC/USDT", a, "buy", 0),
                          NewOrder("BTC/USDT", a, "buy", 0)>>
                   ELSE <<NewOrder("BTC/USDT", a, "buy", 0)>>
    /\ call = NoCall
    /\ ncalls = 0
    /\ rules = <<>>
    /\ riskCtx = <<>>
    /\ wallDate = 0
    /\ account = <<>>
    /\ chk = NoCheck
    /\ eng = NewEngine
    /\ ctxOrders \in {<<>>, <<1>>}
    /\ run = NoRun
    /\ log = <<>>

\* OrderService.cancel_order: the objects after the call and its answer
ServiceCancelOrder(os, id) ==
    LET at == FindById(os, id)
    IN IF at = 0 THEN [orders |-> os, result |-> FALSE]
       ELSE IF IsClosed(os[at]) THEN [orders |-> os, result |-> FALSE]
       ELSE [orders |-> [os EXCEPT ![at] = OrderCancel(@).o], result |-> TRUE]

\* StrategyContext.cancel_order: the service's call, then cancel() on the
\* context's own entry when the service answered true.
ContextCancelOrder ==
    \E id \in CancelIds :
        \E sv \in {ServiceCancelOrder(orders, id)} :
        \E held \in {\E i \in 1..Len(ctxOrders) : ctxOrders[i] = id} :
        \E own \in {IF sv.result /\ held THEN OrderCancel(sv.orders[id])
                    ELSE Return(sv.orders[1])} :
            /\ ncalls < MaxCalls
            /\ orders' = IF sv.result /\ held
                         THEN [sv.orders EXCEPT ![id] = own.o]
                         ELSE sv.orders
            /\ call' = [op |-> "cancel_order", id |-> id,
                        ok |-> sv.result /\ own.ok, amount |-> 0,
                        before |-> orders[1], raised |-> ~own.ok,
                        known |-> FindById(orders, id) # 0,
                        terminal |-> (FindById(orders, id) # 0
                                      /\ IsClosed(orders[FindById(orders, id)])),
                        held |-> held, same |-> (FindById(orders, id) = id),
                        all |-> orders]
            /\ ncalls' = ncalls + 1
            /\ UNCHANGED <<riskVars, engVars>>

NextCancel == CallSubmit \/ CallFill \/ CallExpire \/ ContextCancelOrder

SpecCancel == InitCancel /\ [][NextCancel]_vars

\* C38 as stated: cancel_order(id), for a non-terminal order that the context
\* holds and the order service resolves to the same in-memory Order, returns
\* true and leaves the order CANCELED without raising; for an unknown or
\* already-terminal order it returns false and changes nothing.
C38_AsStated ==
    call.op = "cancel_order" =>
        /\ (call.held /\ call.same /\ ~call.terminal) =>
              /\ ~call.raised /\ call.ok
              /\ orders[call.id].status = "CANCELED"
        /\ (~call.known \/ call.terminal) =>
              /\ ~call.raised /\ ~call.ok
              /\ orders = call.all

\* ------- SpecParams: the trade rule of SpecTrades with a caller that may
\* also change max_trades through update_params, once
ParamUpdates == Cardinality({k \in 1..Len(log) : log[k].kind = "update_params"})

\* rule.update_params({"max_trades": n})
TradesUpdateParams ==
    \E n \in 1..(MaxTradesLimit + 1) :
        /\ ParamUpdates = 0
        /\ n # rules[1].max_trades
        /\ rules' = [rules EXCEPT ![1] = UpdateParams(@, "max_trades" :> n)]
        /\ log' = Append(log, Event("update_params", 0, 0, TRUE, "caller", account))
        /\ UNCHANGED <<orderVars, riskCtx, wallDate, account, chk, eng, ctxOrders, run>>

NextParams ==
    \/ TradesSetTime \/ TradesWallTick \/ TradesCheckNew \/ TradesCheckAgain
    \/ TradesUpdateParams

SpecParams == InitTrades /\ [][NextParams]_vars

\* C39: as long as max_trades has not been changed through update_params,
\* the number of order ids the trade rule holds for the current day never
\* exceeds max_trades, after any sequence of checks and day changes, and a
\* denied check leaves the recorded list unchanged.
C39_CountWithinLimit ==
    [][ParamUpdates' = 0 =>
          /\ Len(rules'[1].trades_today) <= rules'[1].max_trades
          /\ (chk'.n # chk.n /\ ~chk'.result) =>
                rules'[1].trades_today = rules[1].trades_today
    ]_vars

\* Reached: with max_trades never changed, the list is full, the last check
\* was denied, and a day change came before it.
C39_Witness ==
    /\ ParamUpdates = 0
    /\ chk.n > 0 /\ ~chk.result
    /\ Len(rules[1].trades_today) = rules[1].max_trades
    /\ \E k \in 2..(Len(log) - 1) : log[k].bar # log[k - 1].bar

\* ------- SpecNames: a manager that is given rules, some under the same
\* name, between checks of an order of 11 units
MaxAdds == 3

\* Two position rules under the default name, one under a name of its own,
\* and a drawdown rule.
NamedRules ==
    {PositionSizeRule(10, 0, 0), PositionSizeRule(12, 0, 0),
     [PositionSizeRule(10, 0, 0) EXCEPT !.name = "Tight"],
     MaxDrawdownRule(10)}

Added == SelectSeq(log, LAMBDA e : e.kind = "add_rule")

InitNames ==
    /\ orders = <<>>
    /\ call = NoCall
    /\ ncalls = 0
    /\ rules = <<>>
    /\ riskCtx = <<>>
    /\ wallDate = 0
    /\ account = BacktestAccount(50000)
    /\ chk = NoCheck
    /\ EngineUnused

\* RiskManager.add_rule(rule)
NamesAddRule ==
    \E r \in NamedRules :
        /\ Len(Added) < MaxAdds
        /\ rules' = AddRule(rules, r)
        /\ log' = Append(log, [kind |-> "add_rule", rule |-> r])
        /\ UNCHANGED <<orderVars, riskCtx, wallDate, account, chk, eng, ctxOrders, run>>

\* RiskManager.check_order on a new limit order of 11 units
NamesCheckNew ==
    \E c \in {CheckOrder(rules, Len(orders) + 1, NewOrder("BTC/USDT", 11, "buy", 1000),
                         account, riskCtx, wallDate)} :
        /\ chk.n < MaxRuleChecks
        /\ orders' = Append(orders, NewOrder("BTC/USDT", 11, "buy", 1000))
        /\ rules' = c.rules
        /\ chk' = Checked(Len(orders) + 1, "caller", c)
        /\ log' = Append(log, [kind |-> "check", oid |-> Len(orders) + 1,
                               result |-> c.result, evaluated |-> c.evaluated])
        /\ UNCHANGED <<call, ncalls, riskCtx, wallDate, account, eng, ctxOrders, run>>

NextNames == NamesAddRule \/ NamesCheckNew

SpecNames == InitNames /\ [][NextNames]_vars

\* The names given to add_rule in the first k entries of the log, each at
\* the place of its first addition.
RECURSIVE FirstAdded(_)
FirstAdded(k) ==
    IF k = 0 THEN <<>>
    ELSE IF log[k].kind = "add_rule"
            /\ \A j \in 1..(k - 1) : log[j].kind = "add_rule" => log[j].rule.name # log[k].rule.name
         THEN Append(FirstAdded(k - 1), log[k].rule.name)
         ELSE FirstAdded(k - 1)

\* The rule most recently given to add_rule under this name in the first k
\* entries of the log.
LatestAdded(name, k) ==
    log[CHOOSE j \in 1..k :
            /\ log[j].kind = "add_rule" /\ log[j].rule.name = name
            /\ \A i \in (j + 1)..k : ~(log[i].kind = "add_rule" /\ log[i].rule.name = name)].rule

\* C40: the manager holds at most one rule per name; add_rule with a name
\* already present replaces that rule and keeps its original evaluation
\* position, so after two rules were added under one name only the second
\* one is ever evaluated.
C40_OneRulePerName ==
    /\ Len(rules) = Len(FirstAdded(Len(log)))
    /\ \A i \in 1..Len(rules) :
          /\ rules[i].name = FirstAdded(Len(log))[i]
          /\ rules[i] = LatestAdded(rules[i].name, Len(log))
    /\ \A k \in 1..Len(log) :
          log[k].kind = "check" =>
              /\ log[k].evaluated = FirstAdded(k)
                 \/ \E n \in 1..Len(FirstAdded(k)) :
                       /\ log[k].evaluated = SubSeq(FirstAdded(k), 1, n)
                       /\ ~log[k].result
              /\ log[k].result =
                    \A n \in 1..Len(log[k].evaluated) :
                        RuleCheck(LatestAdded(log[k].evaluated[n], k), log[k].oid,
                                  orders[log[k].oid], account, riskCtx, wallDate).allow

\* Reached: a position rule of 10, a drawdown rule and a position rule of 12
\* under the first one's name were added in this order; the order of 11 is
\* then allowed, the position rule asked first.
C40_Witness ==
    /\ Len(log) = 4
    /\ log[1].kind = "add_rule" /\ log[1].rule = PositionSizeRule(10, 0, 0)
    /\ log[2].kind = "add_rule" /\ log[2].rule = MaxDrawdownRule(10)
    /\ log[3].kind = "add_rule" /\ log[3].rule = PositionSizeRule(12, 0, 0)
    /\ log[4].kind = "check" /\ log[4].result
    /\ log[4].evaluated = <<PositionName, DrawdownName>>
    /\ Len(rules) = 2

====
